---- MODULE Spec2Model ----
(***************************************************************************)
(* Model of the astrii ASCII-art pipeline:                                 *)
(*   - the numeric primitives of RenderUtils (clamp, luminance,            *)
(*     applyContrastBrightness, mapToChar, rgbToHex),                      *)
(*   - the image filters of RenderUtils (gaussianKernel2D, convolve2D,     *)
(*     differenceOfGaussians2D, applySobel2D, nonMaxSuppression),          *)
(*   - the ASCII worker (AsciiWorker.ts, self.onmessage),                  *)
(*   - the config worker (asciiConfigWorker.ts, message listener),         *)
(*   - the image input hook (useImageInput.ts),                            *)
(*   - the App's handler of the config worker's responses (App.tsx).       *)
(*                                                                         *)
(* JavaScript numbers are modelled as exact rationals [num, den] with      *)
(* den > 0 in lowest terms; strings are sequences of one-character         *)
(* strings where their length matters (charsets, colour strings).          *)
(* A JavaScript object is a record; a property that is absent (or whose    *)
(* value is undefined) is a field that is not in the record's DOMAIN.      *)
(***************************************************************************)
EXTENDS Integers, Sequences, FiniteSets, TLC

VARIABLES
  inbox,        \* ASCII worker: requests delivered to the worker, not yet handled
  pc,           \* ASCII worker: position of self.onmessage ("idle", "await", "loop")
  cur,          \* ASCII worker: the request being handled (event.data) and its arrival number
  scaled,       \* ASCII worker: outcome of the scaleImage call (the awaited promise)
  frameText,    \* ASCII worker: the text grid under construction
  frameColors,  \* ASCII worker: the colour grid under construction
  y,            \* ASCII worker: row counter of the single-pass loop
  outbox,       \* ASCII worker: messages posted by self.postMessage, in order
  closeCalls,   \* ASCII worker: number of close() calls on each request's bitmap
  served,       \* ASCII worker: number of message events dispatched so far
  requests,     \* ASCII worker: the requests posted to the worker so far, in arrival order
  clock,        \* ASCII worker: last value returned by performance.now()
  cfgLog,       \* config worker: per handled message, the data and the responses posted
  call,         \* pure functions: the function applied and its arguments
  ret,          \* pure functions: the value returned, once applied
  imageState,   \* useImageInput: the hook's state
  hookCalls,    \* useImageInput: the calls of handleImageLoad and clearImage so far
  closedBitmaps,\* useImageInput: the bitmaps the hook has called close() on
  revokedUrls,  \* useImageInput: the URLs the hook has passed to URL.revokeObjectURL
  appSeen       \* App: number of config worker responses its handler has received

vars == <<inbox, pc, cur, scaled, frameText, frameColors, y, outbox,
          closeCalls, served, requests, clock, cfgLog, call, ret,
          imageState, hookCalls, closedBitmaps, revokedUrls, appSeen>>

hookVars == <<imageState, hookCalls, closedBitmaps, revokedUrls>>

asciiVars == <<inbox, pc, cur, scaled, frameText, frameColors, y, outbox,
               closeCalls, served, requests, clock>>

pureVars == <<call, ret>>

-----------------------------------------------------------------------------
(* Exact rational arithmetic standing for JavaScript number arithmetic.    *)

Abs(n) == IF n < 0 THEN -n ELSE n

RECURSIVE GCD(_, _)
GCD(a, b) == IF b = 0 THEN a ELSE GCD(b, a % b)

\* n / d for integers n, d with d # 0, in lowest terms with a positive denominator
Rat(n, d) ==
  LET s == IF d < 0 THEN -1 ELSE 1
      g == GCD(Abs(n), Abs(d))
  IN  [num |-> (s * n) \div g, den |-> (s * d) \div g]

RInt(n) == [num |-> n, den |-> 1]

RAdd(a, b) ==
  LET g == GCD(a.den, b.den)
  IN  Rat(a.num * (b.den \div g) + b.num * (a.den \div g), (a.den \div g) * b.den)

RNeg(a) == [num |-> -a.num, den |-> a.den]

RSub(a, b) == RAdd(a, RNeg(b))

RMul(a, b) ==
  LET g1 == GCD(Abs(a.num), b.den)
      g2 == GCD(Abs(b.num), a.den)
  IN  Rat((a.num \div g1) * (b.num \div g2), (a.den \div g2) * (b.den \div g1))

\* a / b for b # 0
RDiv(a, b) ==
  RMul(a, IF b.num < 0 THEN [num |-> -b.den, den |-> -b.num]
                       ELSE [num |-> b.den, den |-> b.num])

RLe(a, b) ==
  LET g == GCD(a.den, b.den)
  IN  a.num * (b.den \div g) <= b.num * (a.den \div g)

RLt(a, b) == ~RLe(b, a)

\* Math.min, Math.max, Math.floor
RMin(a, b) == IF RLe(a, b) THEN a ELSE b

RMax(a, b) == IF RLe(a, b) THEN b ELSE a

RFloor(a) == a.num \div a.den

RECURSIVE RPow(_, _)
RPow(a, k) == IF k = 0 THEN RInt(1) ELSE RMul(a, RPow(a, k - 1))

-----------------------------------------------------------------------------
(* RenderUtils: numeric primitives.                                         *)

\* the value of an absent property, an out-of-range index
Undefined == "undefined"

\* JavaScript values whose type the code does not fix: booleans, strings, null
JsBool(b) == [t |-> "boolean", v |-> b]

JsString(s) == [t |-> "string", v |-> s]

JsNumber(n) == [t |-> "number", v |-> n]

JsNull == [t |-> "null"]

JsUndefined == [t |-> "undefined"]

\* ToBoolean: what `x ? a : b` and `if (x)` test
Truthy(x) ==
  CASE x.t = "boolean" -> x.v
    [] x.t = "string"  -> x.v # ""
    [] x.t = "number"  -> x.v # 0
    [] OTHER           -> FALSE

\* clamp(value, min, max) = Math.max(min, Math.min(max, value))
clampNoMax(value, min, max) == RMax(min, value)

clampNoMin(value, min, max) == RMin(max, value)

clamp(value, min, max) == RMax(min, RMin(max, value))

\* luminance(r, g, b, gamma): 0.2126 r + 0.7152 g + 0.0722 b, gamma-corrected
\* when gamma # 1 (gamma a natural number here, so that the power is exact)
luminance(r, g, b, gamma) ==
  LET lum == Rat(2126 * r + 7152 * g + 722 * b, 10000)
  IN  IF gamma = 1 THEN lum
      ELSE RMul(RInt(255), RPow(RDiv(lum, RInt(255)), gamma))

\* the contrast factor (259 (c + 255)) / (255 (259 - c)), for c # 259
contrastFactor(contrast) ==
  RDiv(RMul(RInt(259), RAdd(contrast, RInt(255))),
       RMul(RInt(255), RSub(RInt(259), contrast)))

\* applyContrastBrightness(lum, contrast, brightness)
applyContrastBrightness(lum, contrast, brightness) ==
  LET factor == contrastFactor(contrast)
  IN  clamp(RAdd(RAdd(RMul(factor, RSub(lum, RInt(128))), RInt(128)), brightness),
            RInt(0), RInt(255))

\* charset[i] of JavaScript: undefined outside 0 .. length-1
CharAt(charset, i) ==
  IF i + 1 \in DOMAIN charset THEN charset[i + 1] ELSE Undefined

\* the index mapToChar computes before clamping it
mapIndex(lum, charset) ==
  RFloor(RMul(RDiv(lum, RInt(255)), RInt(Len(charset) - 1)))

\* mapToChar scaling by charset.length and not clamping the index
mapToCharFullLength(lum, charset) ==
  CharAt(charset, RFloor(RMul(RDiv(lum, RInt(255)), RInt(Len(charset)))))

\* mapToChar(lum, charset)

mapToChar(lum, charset) ==
  LET index == mapIndex(lum, charset)
  IN  CharAt(charset, clamp(RInt(index), RInt(0), RInt(Len(charset) - 1)).num)

\* Number.prototype.toString(16) of a positive integer, as a sequence of digits
HexDigits == <<"0", "1", "2", "3", "4", "5", "6", "7",
               "8", "9", "a", "b", "c", "d", "e", "f">>

RECURSIVE toString16(_)
toString16(n) ==
  IF n < 16 THEN <<HexDigits[n + 1]>>
  ELSE Append(toString16(n \div 16), HexDigits[(n % 16) + 1])

\* rgbToHex without the 1 << 24 guard digit and the slice: no zero padding
rgbToHexUnpadded(r, g, b) == <<"#">> \o toString16(r * 65536 + g * 256 + b)

\* rgbToHex(r, g, b) = "#" + ((1<<24) + (r<<16) + (g<<8) + b).toString(16).slice(1)
rgbToHex(r, g, b) ==
  <<"#">> \o Tail(toString16(16777216 + r * 65536 + g * 256 + b))

-----------------------------------------------------------------------------
(* RenderUtils: convolution.                                                *)

\* sum = 0; sum += s[1]; ... ; sum += s[n]: the exact sum, whatever the order
RECURSIVE RSumOver(_, _, _)
RSumOver(s, lo, hi) ==
  IF lo > hi THEN RInt(0)
  ELSE IF lo = hi THEN s[lo]
  ELSE LET mid == (lo + hi) \div 2
       IN  RAdd(RSumOver(s, lo, mid), RSumOver(s, mid + 1, hi))

RSum(s) == RSumOver(s, 1, Len(s))

\* convolve2D sampling without the - half offset
convolve2DNoOffset(img, kernel) ==
  LET height == Len(img)
      width == Len(img[1])
      kernelSize == Len(kernel)
      pixel(yy, xx) == IF yy >= 0 /\ yy < height /\ xx >= 0 /\ xx < width
                         THEN img[yy + 1][xx + 1] ELSE RInt(0)
      term(cy, cx, ky, kx) == RMul(pixel(cy + ky, cx + kx), kernel[ky + 1][kx + 1])
  IN  [cy \in 1 .. height |-> [cx \in 1 .. width |->
        RSum([i \in 1 .. kernelSize * kernelSize |->
                term(cy - 1, cx - 1, (i - 1) \div kernelSize, (i - 1) % kernelSize)])]]

\* convolve2D sampling the nearest pixel for a coordinate outside the image
convolve2DClamped(img, kernel) ==
  LET height == Len(img)
      width == Len(img[1])
      kernelSize == Len(kernel)
      half == kernelSize \div 2
      near(v, n) == IF v < 0 THEN 0 ELSE IF v > n - 1 THEN n - 1 ELSE v
      pixel(yy, xx) == img[near(yy, height) + 1][near(xx, width) + 1]
      term(cy, cx, ky, kx) ==
        RMul(pixel(cy + ky - half, cx + kx - half), kernel[ky + 1][kx + 1])
  IN  [cy \in 1 .. height |-> [cx \in 1 .. width |->
        RSum([i \in 1 .. kernelSize * kernelSize |->
                term(cy - 1, cx - 1, (i - 1) \div kernelSize, (i - 1) % kernelSize)])]]

\* convolve2D(img, kernel): for every cell the sum, over ky and kx in
\* 0 .. kernelSize-1, of pixel * kernel[ky][kx], where pixel is
\* img[y+ky-half][x+kx-half] inside the image and 0 outside
convolve2D(img, kernel) ==
  LET height == Len(img)
      width == Len(img[1])
      kernelSize == Len(kernel)
      half == kernelSize \div 2
      pixel(yy, xx) == IF yy >= 0 /\ yy < height /\ xx >= 0 /\ xx < width
                         THEN img[yy + 1][xx + 1] ELSE RInt(0)
      term(cy, cx, ky, kx) ==
        RMul(pixel(cy + ky - half, cx + kx - half), kernel[ky + 1][kx + 1])
  IN  [cy \in 1 .. height |-> [cx \in 1 .. width |->
        RSum([i \in 1 .. kernelSize * kernelSize |->
                term(cy - 1, cx - 1, (i - 1) \div kernelSize, (i - 1) % kernelSize)])]]

\* NaN, the value of 0 / 0 and of every operation on it
NaN == [nan |-> TRUE]

\* A sigma is given by its sign and by q = Math.exp(-1 / (2 sigma sigma)), a
\* rational strictly between 0 and 1 for the non-zero sigmas drawn here, so
\* that Math.exp(-d / (2 sigma sigma)) is q to the power d, exactly; sigma
\* and -sigma have the same q.
SignedSigma(sign, q) == [sign |-> sign, q |-> IF sign = 0 THEN RInt(0) ELSE q]

SigmaOf(q) == SignedSigma(1, q)

\* Math.exp(-d / (2 sigma sigma)); with sigma = 0 the quotient is -0 / 0 = NaN
\* for d = 0 and -Infinity for d > 0, whose exponential is 0
gaussianValue(d, sigma) ==
  IF sigma.sign = 0 THEN (IF d = 0 THEN NaN ELSE RInt(0))
  ELSE RPow(sigma.q, d)

\* sum += value over a sequence of values: NaN as soon as one of them is
sumOfValues(values) ==
  IF \E i \in DOMAIN values : values[i] = NaN THEN NaN ELSE RSum(values)

\* kernel[y][x] /= sum
dividedBy(value, sum) ==
  IF value = NaN \/ sum = NaN THEN NaN ELSE RDiv(value, sum)

\* gaussianKernel2D whose normalizing loops stop one row and one column short
gaussianKernel2DShort(sigma, kernelSize) ==
  LET half == kernelSize \div 2
      side == 2 * half + 1
      value(ky, kx) ==
        gaussianValue((kx - half) * (kx - half) + (ky - half) * (ky - half), sigma)
      sum == sumOfValues([i \in 1 .. side * side |->
                            value((i - 1) \div side, (i - 1) % side)])
  IN  [ky \in 1 .. side |-> [kx \in 1 .. side |->
        IF ky < kernelSize /\ kx < kernelSize
          THEN dividedBy(value(ky - 1, kx - 1), sum)
          ELSE value(ky - 1, kx - 1)]]

\* gaussianKernel2D(sigma, kernelSize): the values for the offsets -half .. half,
\* of which those at the indexes below kernelSize are divided by the sum of all;
\* no argument is tested, and nothing in the body throws
gaussianKernel2D(sigma, kernelSize) ==
  LET half == kernelSize \div 2
      side == 2 * half + 1
      value(ky, kx) ==
        gaussianValue((kx - half) * (kx - half) + (ky - half) * (ky - half), sigma)
      sum == sumOfValues([i \in 1 .. side * side |->
                            value((i - 1) \div side, (i - 1) % side)])
  IN  [ky \in 1 .. side |-> [kx \in 1 .. side |->
        IF ky <= kernelSize /\ kx <= kernelSize
          THEN dividedBy(value(ky - 1, kx - 1), sum)
          ELSE value(ky - 1, kx - 1)]]

\* the difference taken the other way round: blurred2 - blurred1
differenceOfGaussians2DSwapped(gray, sigma1, sigma2, kernelSize) ==
  LET blurred1 == convolve2D(gray, gaussianKernel2D(sigma1, kernelSize))
      blurred2 == convolve2D(gray, gaussianKernel2D(sigma2, kernelSize))
  IN  [cy \in 1 .. Len(gray) |-> [cx \in 1 .. Len(gray[1]) |->
        RSub(blurred2[cy][cx], blurred1[cy][cx])]]

\* differenceOfGaussians2D(gray, sigma1, sigma2, kernelSize)
differenceOfGaussians2D(gray, sigma1, sigma2, kernelSize) ==
  LET kernel1 == gaussianKernel2D(sigma1, kernelSize)
      kernel2 == gaussianKernel2D(sigma2, kernelSize)
      blurred1 == convolve2D(gray, kernel1)
      blurred2 == convolve2D(gray, kernel2)
      height == Len(gray)
      width == Len(gray[1])
  IN  [cy \in 1 .. height |-> [cx \in 1 .. width |->
        RSub(blurred1[cy][cx], blurred2[cy][cx])]]

-----------------------------------------------------------------------------
(* RenderUtils: the Sobel operator.                                         *)

\* Math.sqrt(a) for a rational a >= 0: the root when a is a square, and
\* otherwise the irrational number the record [surd |-> a] stands for
RECURSIVE IntegerRootFrom(_, _)
IntegerRootFrom(n, guess) ==
  LET next == (guess + n \div guess) \div 2
  IN  IF next >= guess THEN guess ELSE IntegerRootFrom(n, next)

Sqrt(a) ==
  LET rn == IF a.num < 2 THEN a.num ELSE IntegerRootFrom(a.num, a.num)
      rd == IF a.den < 2 THEN a.den ELSE IntegerRootFrom(a.den, a.den)
  IN  IF rn * rn = a.num /\ rd * rd = a.den THEN Rat(rn, rd) ELSE [surd |-> a]

\* An angle in degrees: the rational lo when lo = hi, and otherwise an
\* irrational number strictly between lo and hi.
Exactly(deg) == [lo |-> RInt(deg), hi |-> RInt(deg)]

Between(lo, hi) == [lo |-> RInt(lo), hi |-> RInt(hi)]

\* theta < 0
AngleNegative(theta) ==
  IF theta.lo = theta.hi THEN RLt(theta.lo, RInt(0)) ELSE RLe(theta.hi, RInt(0))

\* theta + deg
AnglePlus(theta, deg) ==
  [lo |-> RAdd(theta.lo, RInt(deg)), hi |-> RAdd(theta.hi, RInt(deg))]

\* 180 - theta and -theta
AngleSupplement(theta) ==
  [lo |-> RSub(RInt(180), theta.hi), hi |-> RSub(RInt(180), theta.lo)]

AngleOpposite(theta) == [lo |-> RNeg(theta.hi), hi |-> RNeg(theta.lo)]

\* (Math.atan2(gy, gx) * 180) / Math.PI, where gy is never -0: the angle of
\* the first quadrant, mirrored for gx < 0 and negated for gy < 0
atan2Degrees(gy, gx) ==
  LET ay == Abs(gy.num) * gx.den
      ax == Abs(gx.num) * gy.den
      first == IF ay = 0 THEN Exactly(0)
               ELSE IF ax = 0 THEN Exactly(90)
               ELSE IF ay = ax THEN Exactly(45)
               ELSE IF ay < ax THEN Between(0, 45)
               ELSE Between(45, 90)
      upper == IF gx.num < 0 THEN AngleSupplement(first) ELSE first
  IN  IF gy.num < 0 THEN AngleOpposite(upper) ELSE upper

kernelX == << <<-1, 0, 1>>, <<-2, 0, 2>>, <<-1, 0, 1>> >>

kernelY == << <<-1, -2, -1>>, <<0, 0, 0>>, <<1, 2, 1>> >>

\* Gx or Gy of the interior cell (cy, cx), from 0: the 3x3 neighbourhood
\* weighted by kernel
sobelGradient(img, kernel, cy, cx) ==
  RSum([i \in 1 .. 9 |->
          LET ky == ((i - 1) \div 3) - 1
              kx == ((i - 1) % 3) - 1
          IN  RMul(img[cy + ky + 1][cx + kx + 1], RInt(kernel[ky + 2][kx + 2]))])

\* the magnitude and the folded angle of the interior cell (cy, cx), from 0
sobelCell(img, cy, cx) ==
  LET Gx == sobelGradient(img, kernelX, cy, cx)
      Gy == sobelGradient(img, kernelY, cy, cx)
      theta == atan2Degrees(Gy, Gx)
  IN  [mag |-> Sqrt(RAdd(RMul(Gx, Gx), RMul(Gy, Gy))),
       angle |-> IF AngleNegative(theta) THEN AnglePlus(theta, 180) ELSE theta]

\* img with a frame one cell wide around it: zeros, or with nearest set the
\* nearest cell of img
Framed(img, width, height, nearest) ==
  LET near(v, n) == IF v < 1 THEN 1 ELSE IF v > n THEN n ELSE v
  IN  [r \in 1 .. height + 2 |-> [c \in 1 .. width + 2 |->
        IF nearest THEN img[near(r - 1, height)][near(c - 1, width)]
        ELSE IF r \in 2 .. height + 1 /\ c \in 2 .. width + 1 THEN img[r - 1][c - 1]
        ELSE RInt(0)]]

\* applySobel2D over every cell, the image padded with zeros
applySobel2DPadded(img, width, height) ==
  LET padded == Framed(img, width, height, FALSE)
  IN  [mag |-> [r \in 1 .. height |-> [c \in 1 .. width |->
                 sobelCell(padded, r, c).mag]],
       angle |-> [r \in 1 .. height |-> [c \in 1 .. width |->
                   sobelCell(padded, r, c).angle]]]

\* applySobel2D over every cell, the image extended by its nearest cells
applySobel2DClamped(img, width, height) ==
  LET extended == Framed(img, width, height, TRUE)
  IN  [mag |-> [r \in 1 .. height |-> [c \in 1 .. width |->
                 sobelCell(extended, r, c).mag]],
       angle |-> [r \in 1 .. height |-> [c \in 1 .. width |->
                   sobelCell(extended, r, c).angle]]]

\* applySobel2D(img, width, height): mag and angle start at 0 everywhere; the
\* cells with 1 <= y < height - 1 and 1 <= x < width - 1 get the gradient
applySobel2D(img, width, height) ==
  LET interior(cy, cx) == cy >= 1 /\ cy < height - 1 /\ cx >= 1 /\ cx < width - 1
  IN  [mag |-> [r \in 1 .. height |-> [c \in 1 .. width |->
                 IF interior(r - 1, c - 1)
                   THEN sobelCell(img, r - 1, c - 1).mag ELSE RInt(0)]],
       angle |-> [r \in 1 .. height |-> [c \in 1 .. width |->
                   IF interior(r - 1, c - 1)
                     THEN sobelCell(img, r - 1, c - 1).angle ELSE Exactly(0)]]]

-----------------------------------------------------------------------------
(* RenderUtils: non-maximum suppression.                                    *)

\* the row and column offsets of neighbor1 and neighbor2 for the angle theta,
\* or <<>> when theta is in none of the four bins (both neighbours stay 0)
neighborOffsets(theta) ==
  LET in(lo, hi) == RLe(lo, theta) /\ RLt(theta, hi)
  IN  IF in(RInt(0), Rat(45, 2)) \/ (RLe(Rat(315, 2), theta) /\ RLe(theta, RInt(180)))
        THEN << <<0, -1>>, <<0, 1>> >>
      ELSE IF in(Rat(45, 2), Rat(135, 2)) THEN << <<-1, 1>>, <<1, -1>> >>
      ELSE IF in(Rat(135, 2), Rat(225, 2)) THEN << <<-1, 0>>, <<1, 0>> >>
      ELSE IF in(Rat(225, 2), Rat(315, 2)) THEN << <<-1, -1>>, <<1, 1>> >>
      ELSE <<>>

\* the suppressed value of the interior cell (r, c), from 1; strict says
\* whether the cell must exceed its neighbours to be kept
suppressedCell(mag, angle, r, c, strict) ==
  LET currentMag == mag[r][c]
      offsets == neighborOffsets(angle[r][c])
      neighbor(i) == IF offsets = <<>> THEN RInt(0)
                     ELSE mag[r + offsets[i][1]][c + offsets[i][2]]
      keeps(n) == IF strict THEN RLt(n, currentMag) ELSE RLe(n, currentMag)
  IN  IF keeps(neighbor(1)) /\ keeps(neighbor(2)) THEN currentMag ELSE RInt(0)

\* nonMaxSuppression that copies the border cells of mag
nonMaxSuppressionKeepBorder(mag, angle, width, height) ==
  [r \in 1 .. height |-> [c \in 1 .. width |->
    IF r - 1 >= 1 /\ r - 1 < height - 1 /\ c - 1 >= 1 /\ c - 1 < width - 1
      THEN suppressedCell(mag, angle, r, c, FALSE) ELSE mag[r][c]]]

\* nonMaxSuppression that keeps a cell only when it exceeds both neighbours
nonMaxSuppressionStrict(mag, angle, width, height) ==
  [r \in 1 .. height |-> [c \in 1 .. width |->
    IF r - 1 >= 1 /\ r - 1 < height - 1 /\ c - 1 >= 1 /\ c - 1 < width - 1
      THEN suppressedCell(mag, angle, r, c, TRUE) ELSE RInt(0)]]

\* nonMaxSuppression that keeps a cell when it is <= both neighbours
nonMaxSuppressionKeepsMinima(mag, angle, width, height) ==
  [r \in 1 .. height |-> [c \in 1 .. width |->
    IF r - 1 >= 1 /\ r - 1 < height - 1 /\ c - 1 >= 1 /\ c - 1 < width - 1
      THEN LET offsets == neighborOffsets(angle[r][c])
               neighbor(i) == IF offsets = <<>> THEN RInt(0)
                              ELSE mag[r + offsets[i][1]][c + offsets[i][2]]
           IN  IF RLe(mag[r][c], neighbor(1)) /\ RLe(mag[r][c], neighbor(2))
                 THEN mag[r][c] ELSE RInt(0)
      ELSE RInt(0)]]

\* nonMaxSuppression(mag, angle, width, height): suppressed starts at 0
\* everywhere; the cells with 1 <= y < height - 1 and 1 <= x < width - 1 keep
\* their magnitude when it is >= both neighbours read from mag
nonMaxSuppression(mag, angle, width, height) ==
  [r \in 1 .. height |-> [c \in 1 .. width |->
    IF r - 1 >= 1 /\ r - 1 < height - 1 /\ c - 1 >= 1 /\ c - 1 < width - 1
      THEN suppressedCell(mag, angle, r, c, FALSE) ELSE RInt(0)]]

-----------------------------------------------------------------------------
(* Inputs of the pure-function specification.                               *)

\* denominators of the rational inputs: k / InputDen
InputDen == 2

\* charsets: empty, the one-character ramp, the "binary" preset, the test ramp
EmptyCharset == <<>>

Charsets ==
  { EmptyCharset,
    <<"@">>,
    <<"0", "1">>,
    <<"@", "%", "#", "*", "+", "=", "-", ":", ".", " ">> }

\* luminance values in [0, 255]
LumInputs == { Rat(k, InputDen) : k \in 0 .. 255 * InputDen }

\* luminance values fed to the contrast transform, also outside [0, 255]
WideLumInputs == { RInt(-50), RInt(0), RInt(100), Rat(255, 2), RInt(255),
                   RInt(300) }

\* contrast values strictly between -259 and 259
ContrastInputs ==
  { Rat(k, InputDen) : k \in (1 - 259 * InputDen) .. (259 * InputDen - 1) }

BrightnessInputs == { RInt(-1000), RInt(-200), RInt(0), RInt(100), RInt(1000) }

\* value, min and max of clamp, in any order
ClampInputs == { Rat(k, InputDen) : k \in (-2 * InputDen) .. (2 * InputDen) }

\* colour channels: bytes, and one value past the byte range
ChannelInputs == { 0, 10, 255, 256 }

\* the channels of the colour a first one is compared with
OtherChannelInputs == { 0, 16, 255 }

PureCalls ==
  { [fn |-> "mapToChar", lum |-> l, charset |-> cs] :
      l \in LumInputs, cs \in Charsets }
  \cup
  { [fn |-> "clamp", value |-> v, min |-> lo, max |-> hi] :
      v \in ClampInputs, lo \in ClampInputs, hi \in ClampInputs }
  \cup
  { [fn |-> "rgbToHex", rgb |-> c, other |-> o] :
      c \in ChannelInputs \X ChannelInputs \X ChannelInputs,
      o \in OtherChannelInputs \X OtherChannelInputs \X OtherChannelInputs }
  \cup
  { [fn |-> "applyContrastBrightness", lum |-> l, contrast |-> c, brightness |-> b] :
      l \in WideLumInputs, c \in ContrastInputs, b \in BrightnessInputs }

NotReturned == [returned |-> FALSE]

Returned(v) == [returned |-> TRUE, value |-> v]

Apply_mapToChar ==
  /\ call.fn = "mapToChar"
  /\ ~ret.returned
  /\ ret' = Returned(mapToChar(call.lum, call.charset))
  /\ UNCHANGED call

Apply_applyContrastBrightness ==
  /\ call.fn = "applyContrastBrightness"
  /\ ~ret.returned
  /\ ret' = Returned(applyContrastBrightness(call.lum, call.contrast, call.brightness))
  /\ UNCHANGED call

Apply_clamp ==
  /\ call.fn = "clamp"
  /\ ~ret.returned
  /\ ret' = Returned(clamp(call.value, call.min, call.max))
  /\ UNCHANGED call

\* clamp applied to the value clamp returned, with the same min and max
Reapply_clamp ==
  /\ call.fn = "clamp"
  /\ ret.returned
  /\ "again" \notin DOMAIN ret
  /\ ret' = ret @@ [again |-> clamp(ret.value, call.min, call.max)]
  /\ UNCHANGED call

\* rgbToHex applied to two colours
Apply_rgbToHex ==
  /\ call.fn = "rgbToHex"
  /\ ~ret.returned
  /\ ret' = Returned(rgbToHex(call.rgb[1], call.rgb[2], call.rgb[3]))
             @@ [other |-> rgbToHex(call.other[1], call.other[2], call.other[3])]
  /\ UNCHANGED call

-----------------------------------------------------------------------------
(* The ASCII worker (AsciiWorker.ts): inputs.                               *)

\* requests posted to one worker in a behaviour
MaxRequests == 2

\* grid sizes: cols in 0 .. MaxCols, rows in 0 .. MaxRows, and one tall grid
MaxCols == 2

MaxRows == 2

\* a row count for which the progress stride Math.floor(rows / 10) exceeds 1
TallRows == 20

\* RGBA samples the platform reads back (Uint8ClampedArray: integers 0 .. 255)
Palette == << <<0, 0, 0, 255>>, <<255, 255, 255, 255>>,
              <<119, 92, 151, 255>>, <<54, 190, 78, 255>> >>

\* source images: a uniform one and one whose samples cycle through Palette
Bitmaps == { "uniform", "cycle" }

\* an image the platform cannot draw
Unreadable == "unreadable"

\* the sample the platform's resampling yields at pixel i (from 0) of the target
SampleAt(bitmap, i) ==
  IF bitmap = "uniform" THEN Palette[3] ELSE Palette[(i % Len(Palette)) + 1]

\* the integer a number converts to as a canvas width, height or array length
IntegerPart(a) == IF a.num < 0 THEN -((-a.num) \div a.den) ELSE a.num \div a.den

IsInteger(a) == a.den = 1

\* scaleImage(imageBitmap, cols, rows): an ImageData of RGBA samples, the
\* integer parts of cols and rows wide and high; the canvas rejects a negative
\* size, drawImage an image it cannot draw, getImageData a zero width or height
scaleImage(imageBitmap, cols, rows) ==
  LET w == IntegerPart(cols)
      h == IntegerPart(rows)
  IN  IF w < 0 \/ h < 0
        THEN [ok |-> FALSE, message |-> "TypeError"]
      ELSE IF imageBitmap = Unreadable
        THEN [ok |-> FALSE, message |-> "InvalidStateError"]
      ELSE IF w < 1 \/ h < 1
        THEN [ok |-> FALSE, message |-> "IndexSizeError"]
      ELSE [ok |-> TRUE,
            data |-> [i \in 1 .. w * h * 4 |->
                        SampleAt(imageBitmap, (i - 1) \div 4)[((i - 1) % 4) + 1]]]

Ramp == <<"@", "%", "#", "*", "+", "=", "-", ":", ".", " ">>

\* charset, contrast, brightness and gamma as the caller sets them: the test
\* scenario, the extremes of the contrast range, an empty charset
Profiles ==
  { [charset |-> Ramp, contrast |-> RInt(50), brightness |-> RInt(10)],
    [charset |-> Ramp, contrast |-> RInt(255), brightness |-> RInt(100), gamma |-> 2],
    [charset |-> <<"0", "1">>, contrast |-> RInt(-255), brightness |-> RInt(-200)],
    [charset |-> <<"0", "1">>, contrast |-> RInt(0), brightness |-> RInt(0), gamma |-> 1],
    [charset |-> EmptyCharset, contrast |-> RInt(50), brightness |-> RInt(10)] }

\* cols and rows are numbers: whole ones, and one of each that is not whole
Dims ==
  { [cols |-> RInt(c), rows |-> RInt(r)] : c \in 0 .. MaxCols, r \in 0 .. MaxRows }
  \cup { [cols |-> RInt(1), rows |-> RInt(TallRows)],
         [cols |-> RInt(1), rows |-> Rat(5, 2)],
         [cols |-> Rat(3, 2), rows |-> RInt(1)] }

\* optional properties: present with a value, or absent
Optional(name, values) == { <<>> } \cup { name :> v : v \in values }

\* the config of a "process" request
Config(d, p, extra) == d @@ p @@ extra

FrameIndexes == { 0, 1 }

ProcessRequests ==
  { [type |-> "process", imageBitmap |-> b, config |-> Config(d, p, ce), frameIndex |-> f] :
      b \in Bitmaps, d \in Dims, p \in Profiles,
      ce \in Optional("colorsEnabled", { JsBool(TRUE), JsBool(FALSE) }),
      f \in FrameIndexes }

\* a request whose image cannot be drawn, and a message that is no "process"
\* request
OtherRequests ==
  { [type |-> "process", imageBitmap |-> Unreadable,
     config |-> Config([cols |-> RInt(1), rows |-> RInt(1)],
                       [charset |-> Ramp, contrast |-> RInt(50), brightness |-> RInt(10)],
                       <<>>),
     frameIndex |-> 0],
    [type |-> "init"] }

Requests == ProcessRequests \cup OtherRequests

\* requests that any number of the requests of a behaviour may be; at most one
\* request of a behaviour is drawn from the rest of Requests
BaselineRequests ==
  { [type |-> "process", imageBitmap |-> "cycle",
     config |-> Config([cols |-> RInt(1), rows |-> RInt(1)],
                       [charset |-> Ramp, contrast |-> RInt(50), brightness |-> RInt(10)],
                       "colorsEnabled" :> JsBool(TRUE)),
     frameIndex |-> 1],
    [type |-> "process", imageBitmap |-> "uniform",
     config |-> Config([cols |-> RInt(1), rows |-> RInt(0)],
                       [charset |-> Ramp, contrast |-> RInt(50), brightness |-> RInt(10)],
                       <<>>),
     frameIndex |-> 0] }

-----------------------------------------------------------------------------
(* The ASCII worker (AsciiWorker.ts): self.onmessage.                       *)

NoRequest == [id |-> 0]

NoScale == [ok |-> FALSE, message |-> ""]

\* destructuring defaults: gamma = 1, colorsEnabled = false
cfgGamma(config) == IF "gamma" \in DOMAIN config THEN config.gamma ELSE 1

cfgColorsEnabled(config) ==
  IF "colorsEnabled" \in DOMAIN config THEN config.colorsEnabled ELSE JsBool(FALSE)

\* Array.from({length: rows}, () => Array(cols).fill(v)) for a whole cols: the
\* length of the outer array is the integer part of rows
Grid(rows, cols, v) == [r \in 1 .. IntegerPart(rows) |-> [c \in 1 .. cols.num |-> v]]

\* the per-cell computation with the brightness added before the scaling
cellTextBrightnessScaled(config, r, g, b) ==
  LET factor == contrastFactor(config.contrast)
      lum0   == luminance(r, g, b, cfgGamma(config))
      lum    == clamp(RAdd(RMul(factor, RAdd(RSub(lum0, RInt(128)), config.brightness)),
                           RInt(128)),
                      RInt(0), RInt(255))
  IN  mapToChar(lum, config.charset)

\* a per-cell computation that reads a counter kept across requests
cellTextOfServed(config, r, g, b) ==
  LET factor == contrastFactor(config.contrast)
      lum0   == luminance(r, g, b, cfgGamma(config))
      lum    == clamp(RAdd(RAdd(RMul(factor, RSub(lum0, RInt(128))), RInt(128)),
                           RAdd(config.brightness, RInt(100 * served))),
                      RInt(0), RInt(255))
  IN  mapToChar(lum, config.charset)

\* the worker's per-cell computation: luminance, contrast/brightness, mapToChar
cellText(config, r, g, b) ==
  LET factor == contrastFactor(config.contrast)
      lum0   == luminance(r, g, b, cfgGamma(config))
      lum    == clamp(RAdd(RAdd(RMul(factor, RSub(lum0, RInt(128))), RInt(128)),
                           config.brightness),
                      RInt(0), RInt(255))
  IN  mapToChar(lum, config.charset)

\* the progress stride Math.max(1, Math.floor(rows / 10))
progressStride(rows) ==
  LET tenth == RFloor(RDiv(rows, RInt(10)))
  IN  IF tenth > 1 THEN tenth ELSE 1

\* a progress value that counts the rows left
progressRemaining(row, rows) == RDiv(RSub(rows, RInt(row)), rows)

\* the value of the progress message posted in row row: y / rows
progressValue(row, rows) == RDiv(RInt(row), rows)

\* self.postMessage(m) while handling the current request
Post(m) == outbox' = Append(outbox, [req |-> cur.id, msg |-> m])

\* the handler returns: its locals are gone
EndHandler ==
  /\ pc' = "idle"
  /\ cur' = NoRequest
  /\ scaled' = NoScale
  /\ frameText' = <<>>
  /\ frameColors' = <<>>
  /\ y' = 0

\* the requests the main thread may post next: any request while every
\* request posted so far is a baseline request, a baseline request after that
Postable ==
  IF \A i \in DOMAIN requests : requests[i] \in BaselineRequests
  THEN Requests ELSE BaselineRequests

\* the main thread posts a request: worker.postMessage(...)
PostRequest(req) ==
  /\ Len(requests) < MaxRequests
  /\ req \in Postable
  /\ requests' = Append(requests, req)
  /\ inbox' = Append(inbox, [id |-> Len(requests) + 1, data |-> req])
  /\ UNCHANGED <<pc, cur, scaled, frameText, frameColors, y, outbox, closeCalls,
                 served, clock>>

\* a message event dispatched while an earlier handler is suspended at its
\* await: the earlier handler is pre-empted
OnMessagePreempts ==
  /\ pc \in { "idle", "await" }
  /\ inbox # <<>>
  /\ inbox' = Tail(inbox)
  /\ served' = served + 1
  /\ LET ev == Head(inbox)
     IN  IF ev.data.type = "process"
           THEN /\ cur' = ev
                /\ scaled' = scaleImage(ev.data.imageBitmap, ev.data.config.cols,
                                        ev.data.config.rows)
                /\ pc' = "await"
           ELSE UNCHANGED <<cur, scaled, pc>>
  /\ UNCHANGED <<frameText, frameColors, y, outbox, closeCalls, requests, clock>>

\* a message event is dispatched: the handler runs up to its await.  A message
\* whose type is not "process" is dropped.  A message event is a task of the
\* event loop; the promise of scaleImage, whose body holds no await, is settled
\* when the handler suspends, so the rest of the handler runs as a microtask
\* before the next task: no event is dispatched unless the handler is idle.
OnMessage ==
  /\ pc = "idle"
  /\ inbox # <<>>
  /\ inbox' = Tail(inbox)
  /\ served' = served + 1
  /\ LET ev == Head(inbox)
     IN  IF ev.data.type = "process"
           THEN /\ cur' = ev
                /\ scaled' = scaleImage(ev.data.imageBitmap, ev.data.config.cols,
                                        ev.data.config.rows)
                /\ pc' = "await"
           ELSE UNCHANGED <<cur, scaled, pc>>
  /\ UNCHANGED <<frameText, frameColors, y, outbox, closeCalls, requests, clock>>

\* the rejection handled around scaleImage only: the frame is posted as well
ScaleRejectedFallsThrough ==
  /\ pc = "await"
  /\ ~scaled.ok
  /\ outbox' = outbox \o << [req |-> cur.id, msg |-> [type |-> "error", message |-> scaled.message]],
                            [req |-> cur.id,
                             msg |-> [index |-> cur.data.frameIndex, text |-> <<>>,
                                      timestamp |-> clock]] >>
  /\ EndHandler
  /\ UNCHANGED <<inbox, closeCalls, served, requests, clock>>

\* the awaited promise is rejected: the catch block posts the error
ScaleRejected ==
  /\ pc = "await"
  /\ ~scaled.ok
  /\ Post([type |-> "error", message |-> scaled.message])
  /\ EndHandler
  /\ UNCHANGED <<inbox, closeCalls, served, requests, clock>>

\* the bitmap is not closed after scaling
ScaleResolvedNoClose ==
  /\ pc = "await"
  /\ scaled.ok
  /\ LET config == cur.data.config
     IN  IF IsInteger(config.cols)
           THEN /\ frameText' = Grid(config.rows, config.cols, " ")
                /\ frameColors' = IF Truthy(cfgColorsEnabled(config))
                                    THEN Grid(config.rows, config.cols, rgbToHex(0, 0, 0))
                                    ELSE <<>>
                /\ y' = 0
                /\ pc' = "loop"
                /\ UNCHANGED <<cur, scaled, outbox>>
           ELSE /\ Post([type |-> "error", message |-> "RangeError"])
                /\ EndHandler
  /\ UNCHANGED <<inbox, closeCalls, served, requests, clock>>

\* the awaited promise is fulfilled: close the bitmap, allocate the grids;
\* Array(cols) throws on a cols that is not whole, and the catch block posts
\* the error
ScaleResolved ==
  /\ pc = "await"
  /\ scaled.ok
  /\ closeCalls' = [closeCalls EXCEPT ![cur.id] = @ + 1]
  /\ LET config == cur.data.config
     IN  IF IsInteger(config.cols)
           THEN /\ frameText' = Grid(config.rows, config.cols, " ")
                /\ frameColors' = IF Truthy(cfgColorsEnabled(config))
                                    THEN Grid(config.rows, config.cols, rgbToHex(0, 0, 0))
                                    ELSE <<>>
                /\ y' = 0
                /\ pc' = "loop"
                /\ UNCHANGED <<cur, scaled, outbox>>
           ELSE /\ Post([type |-> "error", message |-> "RangeError"])
                /\ EndHandler
  /\ UNCHANGED <<inbox, served, requests, clock>>

\* an iteration of the outer loop whose inner loop stops one column short
RowSkipsLastColumn ==
  /\ pc = "loop"
  /\ LET config == cur.data.config
         cols == config.cols.num
         px(x, k) == scaled.data[(y * cols + x) * 4 + k + 1]
     IN  /\ RLt(RInt(y), config.rows)
         /\ IF y + 1 \notin DOMAIN frameText
              THEN /\ Post([type |-> "error", message |-> "TypeError"])
                   /\ EndHandler
              ELSE /\ frameText' =
                        [frameText EXCEPT ![y + 1] =
                           [c \in 1 .. cols |->
                              IF c < cols
                                THEN cellText(config, px(c - 1, 0), px(c - 1, 1), px(c - 1, 2))
                                ELSE frameText[y + 1][c]]]
                   /\ frameColors' =
                        IF Truthy(cfgColorsEnabled(config))
                          THEN [frameColors EXCEPT ![y + 1] =
                                  [c \in 1 .. cols |->
                                     rgbToHex(px(c - 1, 0), px(c - 1, 1), px(c - 1, 2))]]
                          ELSE frameColors
                   /\ IF y % progressStride(config.rows) = 0
                        THEN Post([type |-> "progress",
                                   value |-> progressValue(y, config.rows)])
                        ELSE UNCHANGED outbox
                   /\ y' = y + 1
                   /\ UNCHANGED <<pc, cur, scaled>>
  /\ UNCHANGED <<inbox, closeCalls, served, requests, clock>>

\* one iteration of the outer loop: the cells of row y, then the progress post.
\* When rows is not whole the last iteration finds no row y in frameText: the
\* assignment to frameText[y][x] throws and the catch block posts the error.
Row ==
  /\ pc = "loop"
  /\ LET config == cur.data.config
         cols == config.cols.num
         px(x, k) == scaled.data[(y * cols + x) * 4 + k + 1]
     IN  /\ RLt(RInt(y), config.rows)
         /\ IF y + 1 \notin DOMAIN frameText
              THEN /\ Post([type |-> "error", message |-> "TypeError"])
                   /\ EndHandler
              ELSE /\ frameText' =
                        [frameText EXCEPT ![y + 1] =
                           [c \in 1 .. cols |->
                              cellText(config, px(c - 1, 0), px(c - 1, 1), px(c - 1, 2))]]
                   /\ frameColors' =
                        IF Truthy(cfgColorsEnabled(config))
                          THEN [frameColors EXCEPT ![y + 1] =
                                  [c \in 1 .. cols |->
                                     rgbToHex(px(c - 1, 0), px(c - 1, 1), px(c - 1, 2))]]
                          ELSE frameColors
                   /\ IF y % progressStride(config.rows) = 0
                        THEN Post([type |-> "progress",
                                   value |-> progressValue(y, config.rows)])
                        ELSE UNCHANGED outbox
                   /\ y' = y + 1
                   /\ UNCHANGED <<pc, cur, scaled>>
  /\ UNCHANGED <<inbox, closeCalls, served, requests, clock>>

\* a frame whose index is always 0
frameOfIndexZero(frameIndex, text, colors, enabled, timestamp) ==
  [index |-> 0, text |-> text, timestamp |-> timestamp]
  @@ (IF Truthy(enabled) THEN "colors" :> colors ELSE <<>>)

\* a frame that carries the colour grid whatever the flag
frameOfAlwaysColors(frameIndex, text, colors, enabled, timestamp) ==
  [index |-> frameIndex, text |-> text, colors |-> colors, timestamp |-> timestamp]

\* the AsciiFrame: index, text, colors (undefined unless enabled), timestamp
frameOf(frameIndex, text, colors, enabled, timestamp) ==
  [index |-> frameIndex, text |-> text, timestamp |-> timestamp]
  @@ (IF Truthy(enabled) THEN "colors" :> colors ELSE <<>>)

\* the loop is over: post the final frame; performance.now() reads a clock
\* that never goes back
PostFrame ==
  /\ pc = "loop"
  /\ ~RLt(RInt(y), cur.data.config.rows)
  /\ clock' = clock + 1
  /\ Post(frameOf(cur.data.frameIndex, frameText, frameColors,
                  cfgColorsEnabled(cur.data.config), clock'))
  /\ EndHandler
  /\ UNCHANGED <<inbox, closeCalls, served, requests>>

-----------------------------------------------------------------------------
(* The config worker (asciiConfigWorker.ts).                                *)

\* messages handled by one config worker in a behaviour
MaxConfigMessages == 2

RequiredKeys == { "charset", "contrastStart", "contrastEnd", "brightnessStart",
                  "brightnessEnd", "colorMode", "font", "frames" }

NumericKeys == { "contrastStart", "contrastEnd", "brightnessStart", "brightnessEnd" }

\* DEFAULT_CONFIG of useAsciiConfig.ts
DEFAULT_CONFIG ==
  [charset |-> JsString("$@B%8&WM#*oahkbdpqwmZO0QLCJUYXzcvunxrjft/\\|()1{}[]?-_+~<>i!lI;:,\"^`'."),
   contrastStart |-> JsNumber(40), contrastEnd |-> JsNumber(50),
   brightnessStart |-> JsNumber(20), brightnessEnd |-> JsNumber(30),
   colorMode |-> JsString("color"),
   font |-> JsString("system-ui, sans-serif"),
   frames |-> JsNumber(12)]

\* configs whose keys are present with null or undefined values
NullsConfig ==
  [DEFAULT_CONFIG EXCEPT !.contrastStart = JsNull, !.contrastEnd = JsNull,
                         !.brightnessStart = JsNull, !.brightnessEnd = JsNull,
                         !.colorMode = JsNull]

UndefinedsConfig ==
  [DEFAULT_CONFIG EXCEPT !.contrastEnd = JsUndefined, !.brightnessEnd = JsNull,
                         !.colorMode = JsString("grayscale")]

Restrict(f, keys) == [k \in keys |-> f[k]]

\* the objects posted to the config worker: every subset of the required keys
ConfigMessages ==
  { Restrict(c, keys) : c \in { DEFAULT_CONFIG, NullsConfig, UndefinedsConfig },
                        keys \in SUBSET RequiredKeys }

\* messages that any number of the messages of a behaviour may be; at most one
\* message of a behaviour is drawn from the rest of ConfigMessages
BaselineConfigMessages ==
  { DEFAULT_CONFIG, Restrict(DEFAULT_CONFIG, RequiredKeys \ { "font" }) }

\* requiredKeys.some((k) => k in config)
configValidSome(config) == \E k \in RequiredKeys : k \in DOMAIN config

\* requiredKeys.every((k) => k in config)
configValid(config) == \A k \in RequiredKeys : k \in DOMAIN config

\* the message listener, for a message whose data is the object config
ConfigListener(config) ==
  /\ Len(cfgLog) < MaxConfigMessages
  /\ \/ config \in BaselineConfigMessages
     \/ \A i \in DOMAIN cfgLog : cfgLog[i].data \in BaselineConfigMessages
  /\ cfgLog' =
       Append(cfgLog,
              [data |-> config,
               posted |-> IF ~configValid(config)
                            THEN << [success |-> FALSE,
                                     error |-> "Invalid config schema."] >>
                            ELSE << [success |-> TRUE, config |-> config] >>])

-----------------------------------------------------------------------------
(* The image input hook (useImageInput.ts).                                 *)

\* calls of handleImageLoad and clearImage in a behaviour
MaxHookCalls == 3

\* width and height of the decoded images
BitmapSizes == { <<1, 1>>, <<4, 3>> }

\* the ImageBitmap decoded for the call number id: every load decodes a new one
ImageBitmapOf(id, image, size) ==
  [id |-> id, image |-> image, width |-> size[1], height |-> size[2]]

\* the File of the call number id (null for an image fetched from a URL)
FileOf(id) == [file |-> id]

\* URL.createObjectURL(file): a new URL at every call
ObjectUrl(id) == [url |-> id]

\* the initial state of the hook, and the state clearImage returns
NoImageState ==
  [bitmap |-> JsNull, file |-> JsNull, width |-> 0, height |-> 0, previewUrl |-> JsNull]

\* prev.bitmap?.close(); if (prev.previewUrl) URL.revokeObjectURL(prev.previewUrl)
releasePrevious(prev) ==
  /\ closedBitmaps' = IF prev.bitmap # JsNull THEN closedBitmaps \cup { prev.bitmap.id }
                                               ELSE closedBitmaps
  /\ revokedUrls' = IF prev.previewUrl # JsNull THEN revokedUrls \cup { prev.previewUrl }
                                                 ELSE revokedUrls

\* handleImageLoad that drops the previous image without releasing it
handleImageLoadKeepsPrevious(bitmap, file, previewUrl) ==
  /\ Len(hookCalls) < MaxHookCalls
  /\ UNCHANGED <<closedBitmaps, revokedUrls>>
  /\ imageState' = [bitmap |-> bitmap, file |-> file, width |-> bitmap.width,
                    height |-> bitmap.height, previewUrl |-> previewUrl]
  /\ hookCalls' = Append(hookCalls, [op |-> "handleImageLoad", bitmap |-> bitmap,
                                     previewUrl |-> previewUrl])

\* handleImageLoad(bitmap, file, previewUrl): the state updater releases the
\* previous image and returns the new state
handleImageLoad(bitmap, file, previewUrl) ==
  /\ Len(hookCalls) < MaxHookCalls
  /\ releasePrevious(imageState)
  /\ imageState' = [bitmap |-> bitmap, file |-> file, width |-> bitmap.width,
                    height |-> bitmap.height, previewUrl |-> previewUrl]
  /\ hookCalls' = Append(hookCalls, [op |-> "handleImageLoad", bitmap |-> bitmap,
                                     previewUrl |-> previewUrl])

\* clearImage(): the state updater releases the image and returns the empty state
clearImage ==
  /\ Len(hookCalls) < MaxHookCalls
  /\ releasePrevious(imageState)
  /\ imageState' = NoImageState
  /\ hookCalls' = Append(hookCalls, [op |-> "clearImage"])

HookIdle ==
  /\ imageState = NoImageState
  /\ hookCalls = <<>>
  /\ closedBitmaps = {}
  /\ revokedUrls = {}

-----------------------------------------------------------------------------
(* The App (App.tsx): the handler of the config worker's responses.         *)

\* the grid size the App asks for
AppCols == 80

AppRows == 40

\* the "detailed" preset, the charset of DEFAULT_CONFIG, character by character
DetailedCharset ==
  << "$", "@", "B", "%", "8", "&", "W", "M", "#", "*", "o", "a", "h", "k", "b",
     "d", "p", "q", "w", "m", "Z", "O", "0", "Q", "L", "C", "J", "U", "Y", "X",
     "z", "c", "v", "u", "n", "x", "r", "j", "f", "t", "/", "\\", "|", "(", ")",
     "1", "{", "}", "[", "]", "?", "-", "_", "+", "~", "<", ">", "i", "!", "l",
     "I", ";", ":", ",", "\"", "^", "`", "'", "." >>

\* the characters charset[i] of a charset string
StringChars(charset) ==
  IF charset = DEFAULT_CONFIG.charset THEN DetailedCharset
  ELSE IF charset = JsString("@%#*+=-:.")
    THEN <<"@", "%", "#", "*", "+", "=", "-", ":", ".">>
  ELSE EmptyCharset

\* the number a slider value is in the worker's arithmetic
NumberOf(x) == RInt(x.v)

\* the config of the panel (AsciiConfigPanel.tsx, DEFAULT_CONFIG) with the
\* colour mode the user selected
PanelConfig(colorMode) ==
  [charset |-> JsString("@%#*+=-:."),
   contrastStart |-> JsNumber(-30), contrastEnd |-> JsNumber(70),
   brightnessStart |-> JsNumber(-10), brightnessEnd |-> JsNumber(10),
   colorMode |-> JsString(colorMode),
   font |-> JsString("system-ui"),
   frames |-> JsNumber(12),
   textPreset |-> JsString("standard")]

\* the configs the App posts to the config worker: its own default, the
\* panel's in either colour mode, and one that fails the validation
AppConfigs ==
  { DEFAULT_CONFIG, PanelConfig("color"), PanelConfig("grayscale"),
    Restrict(DEFAULT_CONFIG, RequiredKeys \ { "font" }) }

\* the "process" request built from a validated config and the bitmap held;
\* postMessage hands the worker a copy of the bitmap
AppRequest(config, bitmap) ==
  [type |-> "process",
   imageBitmap |-> bitmap.image,
   config |-> [cols |-> RInt(AppCols), rows |-> RInt(AppRows),
               charset |-> StringChars(config.charset),
               contrast |-> NumberOf(config.contrastEnd),
               brightness |-> NumberOf(config.brightnessEnd),
               gamma |-> 1,
               colorsEnabled |-> config.colorMode],
   frameIndex |-> 0]

\* configWorker.onmessage: a failed validation is logged; a validated config
\* is posted to the ASCII worker with the bitmap, when one is held
AppOnConfigMessage ==
  /\ appSeen < Len(cfgLog)
  /\ appSeen' = appSeen + 1
  /\ LET data == cfgLog[appSeen + 1].posted[1]
     IN  IF data.success /\ imageState.bitmap # JsNull
           THEN LET req == AppRequest(data.config, imageState.bitmap)
                IN  /\ Len(requests) < MaxRequests
                    /\ requests' = Append(requests, req)
                    /\ inbox' = Append(inbox, [id |-> Len(requests) + 1, data |-> req])
                    /\ UNCHANGED <<pc, cur, scaled, frameText, frameColors, y, outbox,
                                   closeCalls, served, clock>>
           ELSE UNCHANGED asciiVars
  /\ UNCHANGED hookVars

AsciiIdle ==
  /\ inbox = <<>>
  /\ pc = "idle"
  /\ cur = NoRequest
  /\ scaled = NoScale
  /\ frameText = <<>>
  /\ frameColors = <<>>
  /\ y = 0
  /\ outbox = <<>>
  /\ closeCalls = [i \in 1 .. MaxRequests |-> 0]
  /\ served = 0
  /\ requests = <<>>
  /\ clock = 0

ConfigIdle == cfgLog = <<>>

PureIdle == call = [fn |-> "none"] /\ ret = NotReturned

Init == AsciiIdle /\ ConfigIdle /\ PureIdle /\ HookIdle /\ appSeen = 0

Next ==
  \/ \E req \in Postable : PostRequest(req) /\ UNCHANGED <<cfgLog, call, ret, hookVars, appSeen>>
  \/ OnMessage /\ UNCHANGED <<cfgLog, call, ret, hookVars, appSeen>>
  \/ ScaleRejected /\ UNCHANGED <<cfgLog, call, ret, hookVars, appSeen>>
  \/ ScaleResolved /\ UNCHANGED <<cfgLog, call, ret, hookVars, appSeen>>
  \/ Row /\ UNCHANGED <<cfgLog, call, ret, hookVars, appSeen>>
  \/ PostFrame /\ UNCHANGED <<cfgLog, call, ret, hookVars, appSeen>>

Spec == Init /\ [][Next]_vars

\* pixels: the colours of Palette and four grays
PixelColors ==
  { <<Palette[i][1], Palette[i][2], Palette[i][3]>> : i \in DOMAIN Palette }
  \cup { <<v, v, v>> : v \in { 0, 64, 128, 255 } }

\* contrast and brightness over the ranges of the library's comment, with the
\* ramp of the test scenario
RangeProfiles ==
  { [charset |-> Ramp, contrast |-> RInt(c), brightness |-> RInt(b)] :
      c \in { -255, -100, 0, 70, 255 }, b \in { -255, -10, 0, 30, 255 } }

\* the worker's per-cell computation, for a config and the samples of a pixel
CellCalls ==
  { [fn |-> "cellText", config |-> p, rgb |-> c] :
      p \in Profiles \cup RangeProfiles,
      c \in PixelColors }

Apply_cellText ==
  /\ call.fn = "cellText"
  /\ ~ret.returned
  /\ ret' = Returned(cellText(call.config, call.rgb[1], call.rgb[2], call.rgb[3]))
  /\ UNCHANGED call

\* the pure functions, each applied to inputs drawn in the initial state
InitPure ==
  /\ AsciiIdle /\ ConfigIdle /\ HookIdle /\ appSeen = 0
  /\ call \in PureCalls \cup CellCalls /\ ret = NotReturned

NextPure ==
  \/ Apply_mapToChar /\ UNCHANGED <<asciiVars, cfgLog, hookVars, appSeen>>
  \/ Apply_applyContrastBrightness /\ UNCHANGED <<asciiVars, cfgLog, hookVars, appSeen>>
  \/ Apply_clamp /\ UNCHANGED <<asciiVars, cfgLog, hookVars, appSeen>>
  \/ Reapply_clamp /\ UNCHANGED <<asciiVars, cfgLog, hookVars, appSeen>>
  \/ Apply_rgbToHex /\ UNCHANGED <<asciiVars, cfgLog, hookVars, appSeen>>
  \/ Apply_cellText /\ UNCHANGED <<asciiVars, cfgLog, hookVars, appSeen>>

SpecPure == InitPure /\ [][NextPure]_vars

-----------------------------------------------------------------------------
(* The image filters of RenderUtils, each applied to inputs drawn in the    *)
(* initial state.                                                           *)

\* the images convolved have at most this many cells, three named ones apart
MaxBlurCells == 6

\* the images and grids of the edge filters have at most this many cells
MaxCells == 9

\* the samples of the two-level images
PixelInputs == { 0, 1 }

\* height and width of the images of at most cells cells
ImageSizes(cells) ==
  { <<h, w>> \in (1 .. cells) \X (1 .. cells) : h * w <= cells }

\* every two-level image of at most cells cells
TwoLevelImages(cells) ==
  UNION { [1 .. sz[1] -> [1 .. sz[2] -> { RInt(v) : v \in PixelInputs }]] :
            sz \in ImageSizes(cells) }

\* the image of the convolution test
TestImage == << <<RInt(1), RInt(2)>>, <<RInt(3), RInt(4)>> >>

\* the image of the Sobel test: a bright point at the centre
BrightPoint ==
  << <<RInt(0), RInt(0), RInt(0)>>,
     <<RInt(0), RInt(255), RInt(0)>>,
     <<RInt(0), RInt(0), RInt(0)>> >>

\* a 3x3 image whose samples all differ: 1, 2, ... row by row
CountingImage == [r \in 1 .. 3 |-> [c \in 1 .. 3 |-> RInt((r - 1) * 3 + c)]]

\* a uniform 3x3 image
UniformImage == [r \in 1 .. 3 |-> [c \in 1 .. 3 |-> RInt(255)]]

\* the images convolved
Images(cells) ==
  TwoLevelImages(cells) \cup { TestImage, BrightPoint, CountingImage, UniformImage }

\* the kernel of the convolution test: 1 at the centre
IdentityKernel ==
  << <<RInt(0), RInt(0), RInt(0)>>,
     <<RInt(0), RInt(1), RInt(0)>>,
     <<RInt(0), RInt(0), RInt(0)>> >>

\* a size by size kernel whose weights all differ: 1, 2, ... row by row
CountingKernel(size) ==
  [ky \in 1 .. size |-> [kx \in 1 .. size |-> RInt((ky - 1) * size + kx)]]

Kernels == { IdentityKernel, CountingKernel(1), CountingKernel(3), CountingKernel(5) }

\* the grids blurred: small samples, so that the exact sums stay small
GrayImages(cells) == TwoLevelImages(cells) \cup { TestImage, CountingImage }

\* sigma pairs: narrow then wide, wide then narrow, twice the same
SigmaPairs ==
  { <<SigmaOf(Rat(1, 3)), SigmaOf(Rat(1, 2))>>,
    <<SigmaOf(Rat(1, 2)), SigmaOf(Rat(1, 3))>>,
    <<SigmaOf(Rat(1, 2)), SigmaOf(Rat(1, 2))>> }

OddKernelSizes == { 1, 3, 5 }

EvenKernelSizes == { 0, 2, 4 }

\* sigmas of the kernel builder: positive, zero and negative
Sigmas ==
  { SignedSigma(sign, q) : sign \in { -1, 0, 1 }, q \in { Rat(1, 2), Rat(1, 3) } }

\* the images of the Sobel operator, each passed with its own width and height
SobelImages(cells) == TwoLevelImages(cells) \cup { BrightPoint, CountingImage }

\* magnitudes: two levels for the grids of every size, three for the 4x4 grids
MagInputs == { 1, 2 }

RidgeInputs == { 1, 2, 3 }

\* angles: the bin limits, a value inside each bin, and two outside [0, 180]
AngleInputs ==
  { RInt(-1), RInt(0), RInt(22), Rat(45, 2), RInt(45), RInt(67), Rat(135, 2),
    RInt(90), RInt(112), Rat(225, 2), RInt(135), RInt(157), Rat(315, 2),
    RInt(180), RInt(181) }

\* one angle of each bin
BinAngles == { RInt(0), RInt(45), RInt(90), RInt(135) }

\* every two-level magnitude grid of at most cells cells, with one angle
\* throughout; a grid without interior cell never reads its angles
SmallGridCalls(cells) ==
  UNION { { [fn |-> "nonMaxSuppression", mag |-> g,
             angle |-> [r \in DOMAIN g |-> [c \in DOMAIN g[r] |-> a]],
             width |-> sz[2], height |-> sz[1]] :
              g \in [1 .. sz[1] -> [1 .. sz[2] -> { RInt(v) : v \in MagInputs }]],
              a \in IF sz[1] > 2 /\ sz[2] > 2 THEN AngleInputs ELSE { RInt(0) } } :
          sz \in ImageSizes(cells) }

\* 4x4 grids, where interior cells are neighbours of one another: a zero
\* border, any interior over levels, any bin for each interior row
RidgeGridCalls(levels) ==
  { [fn |-> "nonMaxSuppression",
     mag |-> [r \in 1 .. 4 |-> [c \in 1 .. 4 |->
               IF r \in 2 .. 3 /\ c \in 2 .. 3 THEN RInt(m[r - 1][c - 1]) ELSE RInt(0)]],
     angle |-> [r \in 1 .. 4 |-> [c \in 1 .. 4 |->
                 IF r \in 2 .. 3 /\ c \in 2 .. 3 THEN a[r - 1] ELSE RInt(0)]],
     width |-> 4, height |-> 4] :
      m \in [1 .. 2 -> [1 .. 2 -> levels]],
      a \in [1 .. 2 -> BinAngles] }

\* the calls, for images convolved of at most blurCells cells and images and
\* grids of the edge filters of at most cells cells
FilterCalls(blurCells, cells) ==
  { [fn |-> "convolve2D", img |-> img, kernel |-> k] :
      img \in Images(blurCells), k \in Kernels }
  \cup
  { [fn |-> "differenceOfGaussians2D", gray |-> img, sigma1 |-> sp[1],
     sigma2 |-> sp[2], kernelSize |-> ks] :
      img \in GrayImages(blurCells), sp \in SigmaPairs, ks \in OddKernelSizes }
  \cup
  { [fn |-> "applySobel2D", img |-> img, width |-> Len(img[1]), height |-> Len(img)] :
      img \in SobelImages(cells) }
  \cup
  { [fn |-> "gaussianKernel2D", sigma |-> sigma, kernelSize |-> ks] :
      sigma \in Sigmas, ks \in OddKernelSizes \cup EvenKernelSizes }
  \cup SmallGridCalls(cells) \cup RidgeGridCalls(RidgeInputs)

Apply_convolve2D ==
  /\ call.fn = "convolve2D"
  /\ ~ret.returned
  /\ ret' = Returned(convolve2D(call.img, call.kernel))
  /\ UNCHANGED call

Apply_gaussianKernel2D ==
  /\ call.fn = "gaussianKernel2D"
  /\ ~ret.returned
  /\ ret' = Returned(gaussianKernel2D(call.sigma, call.kernelSize))
  /\ UNCHANGED call

Apply_differenceOfGaussians2D ==
  /\ call.fn = "differenceOfGaussians2D"
  /\ ~ret.returned
  /\ ret' = Returned(differenceOfGaussians2D(call.gray, call.sigma1, call.sigma2,
                                              call.kernelSize))
  /\ UNCHANGED call

Apply_applySobel2D ==
  /\ call.fn = "applySobel2D"
  /\ ~ret.returned
  /\ ret' = Returned(applySobel2D(call.img, call.width, call.height))
  /\ UNCHANGED call

Apply_nonMaxSuppression ==
  /\ call.fn = "nonMaxSuppression"
  /\ ~ret.returned
  /\ ret' = Returned(nonMaxSuppression(call.mag, call.angle, call.width, call.height))
  /\ UNCHANGED call

\* nonMaxSuppression applied to the grid it returned, with the same angles
Reapply_nonMaxSuppression ==
  /\ call.fn = "nonMaxSuppression"
  /\ ret.returned
  /\ "again" \notin DOMAIN ret
  /\ ret' = ret @@ [again |-> nonMaxSuppression(ret.value, call.angle, call.width,
                                                call.height)]
  /\ UNCHANGED call

InitFilters ==
  /\ AsciiIdle
  /\ ConfigIdle
  /\ HookIdle
  /\ appSeen = 0
  /\ call \in FilterCalls(MaxBlurCells, MaxCells)
  /\ ret = NotReturned

NextFilters ==
  \/ Apply_convolve2D /\ UNCHANGED <<asciiVars, cfgLog, hookVars, appSeen>>
  \/ Apply_gaussianKernel2D /\ UNCHANGED <<asciiVars, cfgLog, hookVars, appSeen>>
  \/ Apply_differenceOfGaussians2D /\ UNCHANGED <<asciiVars, cfgLog, hookVars, appSeen>>
  \/ Apply_applySobel2D /\ UNCHANGED <<asciiVars, cfgLog, hookVars, appSeen>>
  \/ Apply_nonMaxSuppression /\ UNCHANGED <<asciiVars, cfgLog, hookVars, appSeen>>
  \/ Reapply_nonMaxSuppression /\ UNCHANGED <<asciiVars, cfgLog, hookVars, appSeen>>

SpecFilters == InitFilters /\ [][NextFilters]_vars

\* the config worker
NextConfig ==
  \E config \in ConfigMessages :
    ConfigListener(config) /\ UNCHANGED <<asciiVars, call, ret, hookVars, appSeen>>

SpecConfig == Init /\ [][NextConfig]_vars

\* the hook: ImageInput decodes a new bitmap and creates a new URL for every
\* image it hands to handleImageLoad
NextHook ==
  \/ \E image \in Bitmaps, size \in BitmapSizes, named \in BOOLEAN :
       LET id == Len(hookCalls) + 1
       IN  /\ handleImageLoad(ImageBitmapOf(id, image, size),
                              IF named THEN FileOf(id) ELSE JsNull, ObjectUrl(id))
           /\ UNCHANGED <<asciiVars, cfgLog, call, ret, appSeen>>
  \/ clearImage /\ UNCHANGED <<asciiVars, cfgLog, call, ret, appSeen>>

SpecHook == Init /\ [][NextHook]_vars

\* the image state of the App when the config worker answers: no image, or
\* the image of a first handleImageLoad
AppImageLoaded(image) ==
  LET bitmap == ImageBitmapOf(1, image, <<4, 3>>)
  IN  /\ imageState = [bitmap |-> bitmap, file |-> FileOf(1), width |-> bitmap.width,
                       height |-> bitmap.height, previewUrl |-> ObjectUrl(1)]
      /\ hookCalls = << [op |-> "handleImageLoad", bitmap |-> bitmap,
                         previewUrl |-> ObjectUrl(1)] >>
      /\ closedBitmaps = {}
      /\ revokedUrls = {}

\* what the config worker posts for a message whose data is config
configResponse(config) ==
  IF ~configValid(config)
    THEN << [success |-> FALSE, error |-> "Invalid config schema."] >>
    ELSE << [success |-> TRUE, config |-> config] >>

\* the App when the config worker has answered one config it was posted
InitApp ==
  /\ AsciiIdle /\ PureIdle /\ appSeen = 0
  /\ cfgLog \in { << [data |-> config, posted |-> configResponse(config)] >> :
                    config \in AppConfigs }
  /\ \/ HookIdle
     \/ \E image \in Bitmaps : AppImageLoaded(image)

\* the App's handler, then the ASCII worker
NextApp ==
  \/ AppOnConfigMessage /\ UNCHANGED <<cfgLog, call, ret>>
  \/ OnMessage /\ UNCHANGED <<cfgLog, call, ret, hookVars, appSeen>>
  \/ ScaleResolved /\ UNCHANGED <<cfgLog, call, ret, hookVars, appSeen>>
  \/ Row /\ UNCHANGED <<cfgLog, call, ret, hookVars, appSeen>>
  \/ PostFrame /\ UNCHANGED <<cfgLog, call, ret, hookVars, appSeen>>

SpecApp == InitApp /\ [][NextApp]_vars

-----------------------------------------------------------------------------
(* Properties of the ASCII worker.                                          *)

IsFrame(m) == "text" \in DOMAIN m

IsError(m) == "type" \in DOMAIN m /\ m.type = "error"

IsProgress(m) == "type" \in DOMAIN m /\ m.type = "progress"

IsTerminal(m) == IsFrame(m) \/ IsError(m)

\* the messages posted for request id, in posting order
MsgsOf(id) ==
  LET ofId(e) == e.req = id
      sel == SelectSeq(outbox, ofId)
  IN  [i \in DOMAIN sel |-> sel[i].msg]

RequestIds == DOMAIN requests

\* the handler of request id has run to its end
Handled(id) == id <= served /\ cur.id # id

\* scaleImage fails on this request
ScaleFails(req) ==
  \/ req.imageBitmap = Unreadable
  \/ RLt(req.config.cols, RInt(1))
  \/ RLt(req.config.rows, RInt(1))

\* a step after scaleImage fails on this request: the allocation of a row, or
\* the store into a row that was not allocated
LaterStepFails(req) ==
  ~ScaleFails(req) /\ (~IsInteger(req.config.cols) \/ ~IsInteger(req.config.rows))

\* C1: every "process" request gets exactly one terminal message (a frame or
\* an error, never both), nothing is posted for it after the terminal message,
\* a request on which scaleImage or a later step fails gets the error and no
\* frame, and a posted frame is complete (all its rows were processed).
C1_OneTerminalMessage ==
  \A id \in RequestIds :
    LET ms == MsgsOf(id)
        terminals == { i \in DOMAIN ms : IsTerminal(ms[i]) }
        req == requests[id]
    IN  /\ Cardinality(terminals) <= 1
        /\ \A i \in terminals : i = Len(ms) /\ cur.id # id
        /\ req.type # "process" => ms = <<>>
        /\ (Handled(id) /\ req.type = "process") => Cardinality(terminals) = 1
        /\ (req.type = "process" /\ (ScaleFails(req) \/ LaterStepFails(req))) =>
             /\ \A i \in DOMAIN ms : ~IsFrame(ms[i])
             /\ Handled(id) => IsError(ms[Len(ms)])
        /\ \A i \in DOMAIN ms :
             IsFrame(ms[i]) => RInt(Len(ms[i].text)) = req.config.rows

\* a request failed in the loop, after progress was posted, and another failed
\* in scaleImage; both were answered by an error
C1_Witness ==
  /\ \E id \in RequestIds :
       /\ Handled(id) /\ requests[id].type = "process" /\ LaterStepFails(requests[id])
       /\ Len(MsgsOf(id)) > 1
       /\ IsError(MsgsOf(id)[Len(MsgsOf(id))])
  /\ \E id \in RequestIds :
       /\ Handled(id) /\ requests[id].type = "process" /\ ScaleFails(requests[id])
       /\ IsError(MsgsOf(id)[Len(MsgsOf(id))])

\* the progress values posted for request id, in posting order
ProgressOf(id) ==
  LET ms == MsgsOf(id)
      isP(m) == IsProgress(m)
      sel == SelectSeq(ms, isP)
  IN  [i \in DOMAIN sel |-> sel[i].value]

\* C2: within one frame the progress values posted are non-decreasing and
\* each lies in [0, 1].
C2_ProgressMonotone ==
  \A id \in RequestIds :
    LET ps == ProgressOf(id)
    IN  /\ \A i \in DOMAIN ps : RLe(RInt(0), ps[i]) /\ RLe(ps[i], RInt(1))
        /\ \A i, j \in DOMAIN ps : i < j => RLe(ps[i], ps[j])

\* a tall frame is complete: its progress was posted every other row
C2_Witness ==
  \E id \in RequestIds :
    /\ Handled(id)
    /\ requests[id].type = "process"
    /\ requests[id].config.rows = RInt(TallRows)
    /\ progressStride(RInt(TallRows)) > 1
    /\ Len(ProgressOf(id)) = ((TallRows - 1) \div progressStride(RInt(TallRows))) + 1
    /\ IsFrame(MsgsOf(id)[Len(MsgsOf(id))])

\* C3: the last progress value posted before a frame is 1.
C3_FinalProgressIsOne ==
  \A id \in RequestIds :
    LET ms == MsgsOf(id)
        ps == ProgressOf(id)
    IN  (ms # <<>> /\ IsFrame(ms[Len(ms)])) =>
          (ps # <<>> /\ ps[Len(ps)] = RInt(1))

\* C4: in a successful frame computation the bitmap is closed exactly once,
\* after scaleImage has returned and before the first cell is processed and
\* before any progress message is posted.
C4_CloseAfterScaleBeforeCells ==
  /\ pc = "await" => closeCalls[cur.id] = 0
  /\ pc = "loop" => closeCalls[cur.id] = 1
  /\ \A id \in RequestIds :
       LET ms == MsgsOf(id)
       IN  /\ (\E i \in DOMAIN ms : IsProgress(ms[i])) => closeCalls[id] = 1
           /\ (\E i \in DOMAIN ms : IsFrame(ms[i])) => closeCalls[id] = 1

\* the bitmap is closed, no cell has been processed, no progress is posted
C4_Witness ==
  /\ pc = "loop" /\ y = 0
  /\ closeCalls[cur.id] = 1
  /\ MsgsOf(cur.id) = <<>>
  /\ frameText = Grid(cur.data.config.rows, cur.data.config.cols, " ")

\* the characters of a charset
CharsOf(charset) == { charset[i] : i \in DOMAIN charset }

\* C5: a posted frame has the request's frameIndex as index and a text grid of
\* rows rows by cols columns; with a non-empty charset and a contrast in
\* [-255, 255] every cell is a character of the charset.
C5_FrameShape ==
  \A id \in RequestIds :
    LET ms == MsgsOf(id)
        req == requests[id]
    IN  \A i \in DOMAIN ms :
          IsFrame(ms[i]) =>
            LET config == req.config
                text == ms[i].text
            IN  /\ ms[i].index = req.frameIndex
                /\ RInt(Len(text)) = config.rows
                /\ \A r \in DOMAIN text : RInt(Len(text[r])) = config.cols
                /\ ( /\ config.charset # <<>>
                     /\ RLe(RInt(-255), config.contrast)
                     /\ RLe(config.contrast, RInt(255)) ) =>
                     \A r \in DOMAIN text : \A c \in DOMAIN text[r] :
                       text[r][c] \in CharsOf(config.charset)

\* a frame of index 1 with two rows and two columns over a charset of two
C5_Witness ==
  \E id \in RequestIds :
    LET ms == MsgsOf(id)
    IN  /\ ms # <<>>
        /\ IsFrame(ms[Len(ms)])
        /\ ms[Len(ms)].index = 1
        /\ Len(ms[Len(ms)].text) = 2
        /\ Len(ms[Len(ms)].text[1]) = 2
        /\ Cardinality(CharsOf(requests[id].config.charset)) = 2
        /\ ms[Len(ms)].text[1][1] # ms[Len(ms)].text[1][2]

\* the two lowercase hexadecimal digits of a byte
Hex2(v) == <<HexDigits[(v \div 16) + 1], HexDigits[(v % 16) + 1]>>

\* "#rrggbb" for three bytes
HexColor(r, g, b) == <<"#">> \o Hex2(r) \o Hex2(g) \o Hex2(b)

LowerHex == { "0", "1", "2", "3", "4", "5", "6", "7", "8", "9",
              "a", "b", "c", "d", "e", "f" }

\* C6: a posted frame carries a colour grid iff colorsEnabled is true in the
\* request (absent counts as false); the grid is rows by cols and each entry
\* is the 7-character lowercase #rrggbb string of the raw r, g, b of the pixel
\* of that cell.
C6_ColorsIffEnabled ==
  \A id \in RequestIds :
    LET ms == MsgsOf(id)
        req == requests[id]
    IN  \A i \in DOMAIN ms :
          IsFrame(ms[i]) =>
            LET config == req.config
                enabled == "colorsEnabled" \in DOMAIN config
                              /\ config.colorsEnabled = JsBool(TRUE)
            IN  /\ ("colors" \in DOMAIN ms[i]) <=> enabled
                /\ enabled =>
                     LET colors == ms[i].colors
                     IN  /\ RInt(Len(colors)) = config.rows
                         /\ \A r \in DOMAIN colors :
                              /\ RInt(Len(colors[r])) = config.cols
                              /\ \A c \in DOMAIN colors[r] :
                                   LET px == SampleAt(req.imageBitmap,
                                                      (r - 1) * config.cols.num + (c - 1))
                                       col == colors[r][c]
                                   IN  /\ Len(col) = 7
                                       /\ col[1] = "#"
                                       /\ \A k \in 2 .. 7 : col[k] \in LowerHex
                                       /\ col = HexColor(px[1], px[2], px[3])

\* a frame with a 2 x 2 colour grid of several colours, one of them black
C6_Witness ==
  \E id \in RequestIds :
    LET ms == MsgsOf(id)
    IN  /\ ms # <<>>
        /\ IsFrame(ms[Len(ms)])
        /\ "colors" \in DOMAIN ms[Len(ms)]
        /\ Len(ms[Len(ms)].colors) = 2
        /\ ms[Len(ms)].colors[1] = << HexColor(0, 0, 0), HexColor(255, 255, 255) >>
        /\ ms[Len(ms)].colors[2][1] = HexColor(119, 92, 151)

-----------------------------------------------------------------------------
(* Properties of the config worker.                                         *)

\* C7: every config message gets exactly one response: {success: false, error}
\* iff one of the eight required keys is absent, otherwise {success: true,
\* config} with the config received; a failure forwards no config.
C7_OneResponse ==
  \A i \in DOMAIN cfgLog :
    LET e == cfgLog[i]
        missing == { k \in { "charset", "contrastStart", "contrastEnd",
                             "brightnessStart", "brightnessEnd", "colorMode",
                             "font", "frames" } : k \notin DOMAIN e.data }
    IN  /\ Len(e.posted) = 1
        /\ (e.posted[1].success = FALSE) <=> (missing # {})
        /\ e.posted[1].success = FALSE =>
             DOMAIN e.posted[1] = { "success", "error" }
        /\ e.posted[1].success = TRUE =>
             /\ DOMAIN e.posted[1] = { "success", "config" }
             /\ e.posted[1].config = e.data

\* a config lacking one key is rejected, a complete one is accepted
C7_Witness ==
  /\ \E i \in DOMAIN cfgLog :
       /\ Cardinality(DOMAIN cfgLog[i].data) = 7
       /\ cfgLog[i].posted[1].success = FALSE
  /\ \E i \in DOMAIN cfgLog :
       /\ Cardinality(DOMAIN cfgLog[i].data) = 8
       /\ cfgLog[i].posted[1].success = TRUE

\* the config with null and undefined numeric fields set to 0 and a null or
\* undefined colorMode set to false
Normalized(config) ==
  [k \in DOMAIN config |->
     IF config[k] \in { JsNull, JsUndefined }
       THEN IF k \in NumericKeys THEN JsNumber(0)
            ELSE IF k = "colorMode" THEN JsBool(FALSE)
            ELSE config[k]
       ELSE config[k]]

\* C8: the config forwarded on acceptance is normalized: null or absent
\* numeric fields are 0, a null or absent colorMode is false.
C8_ForwardedConfigNormalized ==
  \A i \in DOMAIN cfgLog :
    cfgLog[i].posted[1].success = TRUE =>
      cfgLog[i].posted[1].config = Normalized(cfgLog[i].data)

-----------------------------------------------------------------------------
(* Properties of the pure functions.                                        *)

\* C9: for a non-empty charset and lum in [0, 255], mapToChar returns the
\* character at index floor(lum / 255 * (len - 1)), which lies in 0 .. len-1;
\* lum = 0 gives the first character and lum = 255 the last.
C9_MapToCharInCharset ==
  (call.fn = "mapToChar" /\ ret.returned /\ call.charset # <<>>) =>
    LET len == Len(call.charset)
        index == (call.lum.num * (len - 1)) \div (call.lum.den * 255)
    IN  /\ 0 <= index /\ index <= len - 1
        /\ ret.value = call.charset[index + 1]
        /\ ret.value \in CharsOf(call.charset)
        /\ call.lum = RInt(0) => ret.value = call.charset[1]
        /\ call.lum = RInt(255) => ret.value = call.charset[len]

\* lum = 255 mapped to the last of ten characters
C9_Witness ==
  /\ call.fn = "mapToChar" /\ ret.returned
  /\ Len(call.charset) = 10
  /\ call.lum = RInt(255)
  /\ ret.value = " "

\* C10: applyContrastBrightness returns a value in [0, 255] for every lum,
\* every contrast strictly between -259 and 259 and every brightness.
C10_ContrastBrightnessInRange ==
  (call.fn = "applyContrastBrightness" /\ ret.returned) =>
    /\ 0 <= ret.value.num
    /\ ret.value.num <= 255 * ret.value.den

\* contrast 255 drives the unclamped value above 255: the result is 255
C10_Witness ==
  /\ call.fn = "applyContrastBrightness" /\ ret.returned
  /\ call.contrast = RInt(255)
  /\ call.lum = RInt(255)
  /\ call.brightness = RInt(100)
  /\ ret.value = RInt(255)

-----------------------------------------------------------------------------
(* Properties of the numeric primitives.                                    *)

\* C11: for min <= max, clamp(v, min, max) lies in [min, max] and is v when v
\* is in [min, max] already; clamping the result again changes nothing.
C11_ClampInRangeIdempotent ==
  (call.fn = "clamp" /\ ret.returned /\ RLe(call.min, call.max)) =>
    /\ RLe(call.min, ret.value) /\ RLe(ret.value, call.max)
    /\ (RLe(call.min, call.value) /\ RLe(call.value, call.max)) => ret.value = call.value
    /\ "again" \in DOMAIN ret => ret.again = ret.value

\* a value below the range was raised to min, and clamped a second time
C11_Witness ==
  /\ call.fn = "clamp" /\ ret.returned
  /\ RLt(call.min, call.max)
  /\ RLt(call.value, call.min)
  /\ ret.value = call.min
  /\ "again" \in DOMAIN ret

\* a byte: an integer in [0, 255]
IsByte(v) == v \in 0 .. 255

\* C12: for integer channels in [0, 255], rgbToHex(r, g, b) is "#" followed by
\* the two lowercase hexadecimal digits of r, of g and of b, 7 characters in
\* all; two distinct colours give two distinct strings.
C12_RgbToHexFormat ==
  (call.fn = "rgbToHex" /\ ret.returned /\ \A i \in 1 .. 3 : IsByte(call.rgb[i])) =>
    /\ Len(ret.value) = 7
    /\ ret.value = HexColor(call.rgb[1], call.rgb[2], call.rgb[3])
    /\ \A i \in 2 .. 7 : ret.value[i] \in LowerHex
    /\ ((\A i \in 1 .. 3 : IsByte(call.other[i])) /\ call.other # call.rgb) =>
         ret.other # ret.value

\* a colour whose channels need zero padding, and another that differs from it
\* in the green channel only
C12_Witness ==
  /\ call.fn = "rgbToHex" /\ ret.returned
  /\ call.rgb = <<0, 10, 255>>
  /\ call.other = <<0, 16, 255>>
  /\ ret.value = <<"#", "0", "0", "0", "a", "f", "f">>
  /\ ret.other = <<"#", "0", "0", "1", "0", "f", "f">>

-----------------------------------------------------------------------------
(* Properties of the image filters.                                         *)

\* grid has height rows of width cells each
HasShape(grid, height, width) ==
  /\ Len(grid) = height
  /\ \A r \in DOMAIN grid : Len(grid[r]) = width

\* grid has the rows and columns of the rectangular grid other
SameShape(grid, other) == HasShape(grid, Len(other), Len(other[1]))

\* C13: convolve2D with the 3x3 kernel that is 1 at the centre and 0
\* elsewhere returns the image, cell for cell, also for images smaller than
\* the kernel.
C13_ConvolveIdentity ==
  (call.fn = "convolve2D" /\ ret.returned /\ call.kernel = IdentityKernel) =>
    ret.value = call.img

\* the 2x2 test image came back from the identity kernel
C13_Witness ==
  /\ call.fn = "convolve2D" /\ ret.returned
  /\ call.kernel = IdentityKernel
  /\ call.img = TestImage
  /\ ret.value = << <<RInt(1), RInt(2)>>, <<RInt(3), RInt(4)>> >>

\* what the image itself contributes to cell (r, c): every image cell times
\* the kernel weight that lies over it when the kernel is centred on (r, c),
\* nothing for the part of the kernel that lies off the image
WeightedImageSum(img, kernel, r, c) ==
  LET height == Len(img)
      width == Len(img[1])
      half == (Len(kernel) - 1) \div 2
      part(rr, cc) ==
        LET kr == rr - r + half + 1
            kc == cc - c + half + 1
        IN  IF kr \in DOMAIN kernel /\ kc \in DOMAIN kernel[kr]
              THEN RMul(img[rr][cc], kernel[kr][kc]) ELSE RInt(0)
  IN  RSum([i \in 1 .. height * width |->
              part(((i - 1) \div width) + 1, ((i - 1) % width) + 1)])

\* C14: for an odd-sized square kernel convolve2D returns a grid of the
\* image's rows and columns whose every cell is the kernel-weighted sum of the
\* image cells under the kernel, samples off the image counting 0.
C14_ConvolveZeroPadded ==
  (call.fn = "convolve2D" /\ ret.returned /\ Len(call.kernel) % 2 = 1) =>
    /\ SameShape(ret.value, call.img)
    /\ \A r \in DOMAIN ret.value : \A c \in DOMAIN ret.value[r] :
         ret.value[r][c] = WeightedImageSum(call.img, call.kernel, r, c)

\* a uniform 3x3 image under the 3x3 counting kernel: the corner sees the
\* weights 5, 6, 8, 9 only, the centre all of them
C14_Witness ==
  /\ call.fn = "convolve2D" /\ ret.returned
  /\ call.kernel = CountingKernel(3)
  /\ call.img = UniformImage
  /\ ret.value[1][1] = RInt(255 * 28)
  /\ ret.value[2][2] = RInt(255 * 45)

\* C15: for positive sigmas and an odd kernelSize differenceOfGaussians2D
\* returns a grid of the rows and columns of gray whose every cell is the blur
\* of gray under gaussianKernel2D(sigma1, kernelSize) minus the blur under
\* gaussianKernel2D(sigma2, kernelSize), in that order.
C15_DoGIsBlur1MinusBlur2 ==
  (call.fn = "differenceOfGaussians2D" /\ ret.returned /\ call.kernelSize % 2 = 1) =>
    LET G1 == gaussianKernel2D(call.sigma1, call.kernelSize)
        G2 == gaussianKernel2D(call.sigma2, call.kernelSize)
    IN  /\ SameShape(ret.value, call.gray)
        /\ \A r \in DOMAIN ret.value : \A c \in DOMAIN ret.value[r] :
             ret.value[r][c] = RSub(WeightedImageSum(call.gray, G1, r, c),
                                    WeightedImageSum(call.gray, G2, r, c))

\* the test image under 3x3 kernels: the narrow blur minus the wide one keeps
\* more of the bright corner, and less of the dark one
C15_Witness ==
  /\ call.fn = "differenceOfGaussians2D" /\ ret.returned
  /\ call.gray = TestImage
  /\ call.kernelSize = 3
  /\ call.sigma1 = SigmaOf(Rat(1, 3)) /\ call.sigma2 = SigmaOf(Rat(1, 2))
  /\ RLt(RInt(0), ret.value[2][2])
  /\ HasShape(ret.value, 2, 2)

\* the cells of the first and last row and column of a height by width grid
BorderCells(height, width) ==
  { p \in (1 .. height) \X (1 .. width) :
      p[1] = 1 \/ p[1] = height \/ p[2] = 1 \/ p[2] = width }

\* C16: applySobel2D returns magnitude and angle grids of height rows by
\* width columns whose border cells all have magnitude 0 and angle 0, whatever
\* the image; on an all-zero image every magnitude is 0.
C16_SobelBorderZero ==
  (call.fn = "applySobel2D" /\ ret.returned) =>
    /\ HasShape(ret.value.mag, call.height, call.width)
    /\ HasShape(ret.value.angle, call.height, call.width)
    /\ \A p \in BorderCells(call.height, call.width) :
         /\ ret.value.mag[p[1]][p[2]] = RInt(0)
         /\ ret.value.angle[p[1]][p[2]] = Exactly(0)
    /\ (\A r \in DOMAIN call.img : \A c \in DOMAIN call.img[r] : call.img[r][c] = RInt(0)) =>
         \A r \in DOMAIN ret.value.mag : \A c \in DOMAIN ret.value.mag[r] :
           ret.value.mag[r][c] = RInt(0)

\* a 3x3 image with an edge: the centre has a magnitude, the border has none
C16_Witness ==
  /\ call.fn = "applySobel2D" /\ ret.returned
  /\ call.height = 3 /\ call.width = 3
  /\ call.img[1][1] = RInt(1)
  /\ ret.value.mag[2][2] # RInt(0)
  /\ ret.value.mag[1][1] = RInt(0)

\* the four cells that share a side with the centre of a 3x3 grid
BesideCentre == { <<1, 2>>, <<2, 1>>, <<2, 3>>, <<3, 2>> }

Corners == { <<1, 1>>, <<1, 3>>, <<3, 1>>, <<3, 3>> }

\* C17 as stated: on the 3x3 bright point applySobel2D yields 3x3 grids with a
\* non-zero magnitude in the cells adjacent to the centre and zero magnitude
\* at the four corners.
C17_BrightPointNeighboursNonZero ==
  (call.fn = "applySobel2D" /\ ret.returned /\ call.img = BrightPoint) =>
    /\ HasShape(ret.value.mag, 3, 3)
    /\ HasShape(ret.value.angle, 3, 3)
    /\ \A p \in BesideCentre : ret.value.mag[p[1]][p[2]] # RInt(0)
    /\ \A p \in Corners : ret.value.mag[p[1]][p[2]] = RInt(0)

\* C17 as amended: on the 3x3 bright point applySobel2D yields 3x3 grids with
\* zero magnitude in every cell: the cells adjacent to the centre, the four
\* corners and the centre itself.
C17_BrightPointAllZero ==
  (call.fn = "applySobel2D" /\ ret.returned /\ call.img = BrightPoint) =>
    /\ HasShape(ret.value.mag, 3, 3)
    /\ HasShape(ret.value.angle, 3, 3)
    /\ \A r \in 1 .. 3 : \A c \in 1 .. 3 : ret.value.mag[r][c] = RInt(0)

\* the bright point went through applySobel2D
C17_Witness ==
  /\ call.fn = "applySobel2D" /\ ret.returned
  /\ call.img = BrightPoint
  /\ call.width = 3 /\ call.height = 3
  /\ ret.value.mag[1][2] = RInt(0)
  /\ ret.value.mag[2][2] = RInt(0)

\* 0 <= theta < 180
InHalfTurn(theta) ==
  /\ RLe(RInt(0), theta.lo)
  /\ IF theta.lo = theta.hi THEN RLt(theta.hi, RInt(180)) ELSE RLe(theta.hi, RInt(180))

\* C18: every angle applySobel2D produces lies in [0, 180).
C18_AngleBelow180 ==
  (call.fn = "applySobel2D" /\ ret.returned) =>
    \A r \in DOMAIN ret.value.angle : \A c \in DOMAIN ret.value.angle[r] :
      InHalfTurn(ret.value.angle[r][c])

\* C19: on a non-negative magnitude grid nonMaxSuppression returns a height
\* by width grid whose every cell is 0 or the input magnitude of that cell,
\* never more than the input, and whose border cells are all 0.
C19_SuppressionNeverAmplifies ==
  (/\ call.fn = "nonMaxSuppression" /\ ret.returned
   /\ \A r \in DOMAIN call.mag : \A c \in DOMAIN call.mag[r] :
        RLe(RInt(0), call.mag[r][c])) =>
    /\ HasShape(ret.value, call.height, call.width)
    /\ \A r \in DOMAIN ret.value : \A c \in DOMAIN ret.value[r] :
         /\ ret.value[r][c] = RInt(0) \/ ret.value[r][c] = call.mag[r][c]
         /\ RLe(ret.value[r][c], call.mag[r][c])
    /\ \A p \in BorderCells(call.height, call.width) : ret.value[p[1]][p[2]] = RInt(0)

\* a 3x3 grid whose centre lies below a neighbour of its bin: the centre is
\* suppressed, and so is the border
C19_Witness ==
  /\ call.fn = "nonMaxSuppression" /\ ret.returned
  /\ call.height = 3 /\ call.width = 3
  /\ call.mag[2][2] = RInt(1) /\ call.mag[2][1] = RInt(2)
  /\ call.angle[2][2] = RInt(0)
  /\ ret.value[2][2] = RInt(0)
  /\ ret.value[2][1] = RInt(0)

\* the offsets of the two neighbours the claim names for an angle t in [0, 180]
ClaimedNeighbors(t) ==
  IF RLt(t, Rat(45, 2)) \/ RLe(Rat(315, 2), t) THEN { <<0, -1>>, <<0, 1>> }
  ELSE IF RLt(t, Rat(135, 2)) THEN { <<-1, 1>>, <<1, -1>> }
  ELSE IF RLt(t, Rat(225, 2)) THEN { <<-1, 0>>, <<1, 0>> }
  ELSE { <<-1, -1>>, <<1, 1>> }

\* C20: an interior cell with an angle in [0, 180] keeps its magnitude iff it
\* is >= the two neighbours of its bin, read from the input grid: horizontal
\* for [0, 22.5) and [157.5, 180], (y-1,x+1) and (y+1,x-1) for [22.5, 67.5),
\* vertical for [67.5, 112.5), (y-1,x-1) and (y+1,x+1) for [112.5, 157.5); a
\* cell equal to its neighbours is kept, and a neighbour counts with its input
\* magnitude also when it is itself suppressed.
C20_KeepsIffNotBelowNeighbors ==
  (call.fn = "nonMaxSuppression" /\ ret.returned) =>
    \A r \in 2 .. call.height - 1 : \A c \in 2 .. call.width - 1 :
      LET t == call.angle[r][c]
      IN  (RLe(RInt(0), t) /\ RLe(t, RInt(180))) =>
            ret.value[r][c] =
              IF \A d \in ClaimedNeighbors(t) :
                   RLe(call.mag[r + d[1]][c + d[2]], call.mag[r][c])
                THEN call.mag[r][c] ELSE RInt(0)

\* a 4x4 grid: (2,2) is suppressed by (2,3); (3,2) below it is still
\* suppressed by the input magnitude of (2,2); (3,3) equals its upper
\* neighbour and is kept
C20_Witness ==
  /\ call.fn = "nonMaxSuppression" /\ ret.returned
  /\ call.height = 4 /\ call.width = 4
  /\ call.mag[2][2] = RInt(2) /\ call.mag[2][3] = RInt(3)
  /\ call.mag[3][2] = RInt(1) /\ call.mag[3][3] = RInt(3)
  /\ call.angle[2][2] = RInt(0) /\ call.angle[3][2] = RInt(90)
  /\ ret.value[2][2] = RInt(0)
  /\ ret.value[3][2] = RInt(0)
  /\ ret.value[3][3] = RInt(3)

-----------------------------------------------------------------------------
(* Properties of the Gaussian kernel builder.                               *)

\* the precondition of gaussianKernel2D: a positive sigma and an odd kernelSize
KernelPrecondition(sigma, kernelSize) == sigma.sign > 0 /\ kernelSize % 2 = 1

\* C21: gaussianKernel2D called with sigma <= 0 or with an even kernelSize
\* signals an error: it never returns a kernel.
C21_KernelFailsFast ==
  (call.fn = "gaussianKernel2D" /\ ~KernelPrecondition(call.sigma, call.kernelSize))
    => ~ret.returned

\* the sum of the k*k weights of a k by k kernel
KernelTotal(kernel, k) ==
  RSum([i \in 1 .. k * k |-> kernel[((i - 1) \div k) + 1][((i - 1) % k) + 1]])

\* exp(-(x^2 + y^2) / (2 sigma^2)) for the cell (ky, kx) of a k by k kernel,
\* as a power of q = exp(-1 / (2 sigma^2))
Unnormalized(sigma, k, ky, kx) ==
  LET dy == ky - 1 - (k \div 2)
      dx == kx - 1 - (k \div 2)
  IN  RPow(sigma.q, dx * dx + dy * dy)

\* C22: for sigma > 0 and an odd kernelSize k, gaussianKernel2D(sigma, k) is a
\* k by k kernel of positive weights, each its unnormalized weight divided by
\* the total of the unnormalized weights, and the weights sum to 1.
C22_KernelNormalized ==
  (call.fn = "gaussianKernel2D" /\ KernelPrecondition(call.sigma, call.kernelSize)
     /\ ret.returned) =>
    LET k == call.kernelSize
        total == RSum([i \in 1 .. k * k |->
                   Unnormalized(call.sigma, k, ((i - 1) \div k) + 1, ((i - 1) % k) + 1)])
    IN  /\ HasShape(ret.value, k, k)
        /\ \A ky \in 1 .. k, kx \in 1 .. k :
             /\ ret.value[ky][kx] # NaN
             /\ RLt(RInt(0), ret.value[ky][kx])
             /\ ret.value[ky][kx] = RDiv(Unnormalized(call.sigma, k, ky, kx), total)
        /\ KernelTotal(ret.value, k) = RInt(1)

\* a 5x5 kernel of a positive sigma has been built
C22_Witness ==
  /\ call.fn = "gaussianKernel2D"
  /\ call.sigma = SigmaOf(Rat(1, 3))
  /\ call.kernelSize = 5
  /\ ret.returned
  /\ RLt(ret.value[1][1], ret.value[3][3])

-----------------------------------------------------------------------------
(* Non-maximum suppression applied twice.                                   *)

\* every magnitude of the grid is >= 0
NonNegative(grid) ==
  \A r \in DOMAIN grid : \A c \in DOMAIN grid[r] : RLe(RInt(0), grid[r][c])

\* C28: on a grid of magnitudes >= 0, nonMaxSuppression applied to its own
\* result, with the same angles, width and height, returns that result cell
\* for cell.
C28_SuppressionIdempotent ==
  (call.fn = "nonMaxSuppression" /\ ret.returned /\ "again" \in DOMAIN ret
     /\ NonNegative(call.mag)) =>
    ret.again = ret.value

\* a 4x4 grid suppressed twice: in the first pass the cell (2, 2) is kept and
\* its horizontal neighbour (2, 3), non-zero in mag, is suppressed
C28_Witness ==
  /\ call.fn = "nonMaxSuppression" /\ ret.returned /\ "again" \in DOMAIN ret
  /\ call.height = 4 /\ call.width = 4
  /\ call.angle[2][2] = RInt(0)
  /\ call.mag[2][3] # RInt(0)
  /\ ret.value[2][3] = RInt(0)
  /\ ret.value[2][2] # RInt(0)
  /\ ret.again[2][2] = ret.value[2][2]

-----------------------------------------------------------------------------
(* The worker's per-cell computation and the library.                       *)

\* C25: for every pixel and every config, the worker's inlined computation
\* yields the character of the library composition
\* mapToChar(applyContrastBrightness(luminance(r, g, b, gamma), contrast,
\* brightness), charset).
C25_InlineEqualsLibrary ==
  (call.fn = "cellText" /\ ret.returned) =>
    ret.value =
      mapToChar(applyContrastBrightness(
                  luminance(call.rgb[1], call.rgb[2], call.rgb[3], cfgGamma(call.config)),
                  call.config.contrast, call.config.brightness),
                call.config.charset)

\* a mid-gray pixel under the config of the test scenario maps to a character
\* inside the ramp, neither its first nor its last
C25_Witness ==
  /\ call.fn = "cellText" /\ ret.returned
  /\ call.rgb = <<128, 128, 128>>
  /\ call.config = [charset |-> Ramp, contrast |-> RInt(50), brightness |-> RInt(10)]
  /\ ret.value \in CharsOf(Ramp) \ { Ramp[1], Ramp[Len(Ramp)] }

-----------------------------------------------------------------------------
(* Frames of the ASCII worker: uniformity, determinism, the image handle,   *)
(* the order of the posted messages.                                        *)

\* the frame posted for request id, when there is one
HasFrame(id) == \E i \in DOMAIN MsgsOf(id) : IsFrame(MsgsOf(id)[i])

FrameOf(id) == LET ms == MsgsOf(id) IN ms[CHOOSE i \in DOMAIN ms : IsFrame(ms[i])]

\* every cell of the grid holds the same value
UniformGrid(grid) ==
  \A r1 \in DOMAIN grid, r2 \in DOMAIN grid :
    \A c1 \in DOMAIN grid[r1], c2 \in DOMAIN grid[r2] : grid[r1][c1] = grid[r2][c2]

\* every pixel of the buffer has the r, g, b of the first
UniformBuffer(data) ==
  \A i \in DOMAIN data : (i - 1) % 4 # 3 => data[i] = data[((i - 1) % 4) + 1]

\* C23: for a pixel buffer in which every pixel has the same r, g, b, and any
\* config, every cell of the character grid is the same character, whatever
\* the grid size: in the rows processed so far and in the frame posted.
C23_UniformImageUniformText ==
  /\ (pc = "loop" /\ UniformBuffer(scaled.data)) =>
       UniformGrid([r \in 1 .. y |-> frameText[r]])
  /\ \A id \in RequestIds :
       (HasFrame(id) /\ requests[id].imageBitmap = "uniform") =>
         UniformGrid(FrameOf(id).text)

\* a 2x2 frame of one character, not the fill character, from a uniform image
C23_Witness ==
  \E id \in RequestIds :
    /\ HasFrame(id)
    /\ requests[id].imageBitmap = "uniform"
    /\ requests[id].config.rows = RInt(2) /\ requests[id].config.cols = RInt(2)
    /\ FrameOf(id).text[2][2] \notin { " ", Undefined }
    /\ UniformGrid(FrameOf(id).text)

\* the text grid computed from a request alone
ExpectedText(req) ==
  LET config == req.config
      cols == config.cols.num
      data == scaleImage(req.imageBitmap, config.cols, config.rows).data
      px(r, c, k) == data[((r - 1) * cols + (c - 1)) * 4 + k]
  IN  [r \in 1 .. config.rows.num |-> [c \in 1 .. cols |->
        cellText(config, px(r, c, 1), px(r, c, 2), px(r, c, 3))]]

\* the colour grid computed from a request alone
ExpectedColors(req) ==
  LET config == req.config
      cols == config.cols.num
      data == scaleImage(req.imageBitmap, config.cols, config.rows).data
      px(r, c, k) == data[((r - 1) * cols + (c - 1)) * 4 + k]
  IN  [r \in 1 .. config.rows.num |-> [c \in 1 .. cols |->
        HexColor(px(r, c, 1), px(r, c, 2), px(r, c, 3))]]

\* the request has the pixel data and the config of the other
SameInput(req, other) ==
  /\ req.type = "process" /\ other.type = "process"
  /\ req.imageBitmap = other.imageBitmap
  /\ req.config = other.config

\* C24: the frame of a request is determined by its pixel data and config
\* alone: its text and colors are the grids computed from the request, whatever
\* was handled before, and two handled requests with the same pixel data and
\* config get frames with identical text and colors (or both get none).
C24_FramesDeterministic ==
  /\ \A id \in RequestIds :
       HasFrame(id) =>
         /\ FrameOf(id).text = ExpectedText(requests[id])
         /\ "colors" \in DOMAIN FrameOf(id) =>
              FrameOf(id).colors = ExpectedColors(requests[id])
  /\ \A i \in RequestIds, j \in RequestIds :
       (SameInput(requests[i], requests[j]) /\ Handled(i) /\ Handled(j)) =>
         /\ HasFrame(i) <=> HasFrame(j)
         /\ HasFrame(i) =>
              /\ FrameOf(i).text = FrameOf(j).text
              /\ ("colors" \in DOMAIN FrameOf(i)) <=> ("colors" \in DOMAIN FrameOf(j))
              /\ "colors" \in DOMAIN FrameOf(i) => FrameOf(i).colors = FrameOf(j).colors

\* two requests with the same pixel data and config, posted as frames 0 and 1,
\* have both got their frame, with text and colors
C24_Witness ==
  /\ Len(requests) = 2
  /\ SameInput(requests[1], requests[2])
  /\ requests[1].frameIndex # requests[2].frameIndex
  /\ HasFrame(1) /\ HasFrame(2)
  /\ "colors" \in DOMAIN FrameOf(2)
  /\ FrameOf(1).text = FrameOf(2).text
  /\ FrameOf(1).timestamp # FrameOf(2).timestamp

\* C26: when the terminal message of a "process" request is posted, a frame or
\* an error, the worker has closed the request's image bitmap.
C26_BitmapClosedAtTerminal ==
  \A id \in RequestIds :
    (\E i \in DOMAIN MsgsOf(id) : IsTerminal(MsgsOf(id)[i])) => closeCalls[id] >= 1

\* C27: the messages posted for different requests never interleave and follow
\* the arrival order: every message of a request is posted before any message
\* of a later request, its terminal message included.
C27_MessagesInArrivalOrder ==
  /\ \A i \in DOMAIN outbox, j \in DOMAIN outbox :
       i < j => outbox[i].req <= outbox[j].req
  /\ \A i \in RequestIds, j \in RequestIds :
       (i < j /\ requests[i].type = "process" /\ (MsgsOf(j) # <<>> \/ cur.id = j)) =>
         \E k \in DOMAIN MsgsOf(i) : IsTerminal(MsgsOf(i)[k])

\* two requests have both got progress messages and their frame, the first
\* of them more than one progress message
C27_Witness ==
  /\ Len(requests) = 2
  /\ HasFrame(1) /\ HasFrame(2)
  /\ IsProgress(MsgsOf(1)[1]) /\ IsProgress(MsgsOf(2)[1])
  /\ Len(MsgsOf(1)) > 2
  /\ FrameOf(1).timestamp < FrameOf(2).timestamp

-----------------------------------------------------------------------------
(* Properties of the image input hook.                                      *)

\* the calls of handleImageLoad so far
LoadCalls == { i \in DOMAIN hookCalls : hookCalls[i].op = "handleImageLoad" }

\* C30: after any sequence of handleImageLoad and clearImage calls, every
\* bitmap loaded and since replaced or cleared has been closed and its preview
\* URL revoked; the bitmap held has not been closed by the hook and width and
\* height are its dimensions; after clearImage the state is the empty state.
C30_HookReleasesWhatItDrops ==
  /\ \A i \in LoadCalls :
       hookCalls[i].bitmap # imageState.bitmap =>
         /\ hookCalls[i].bitmap.id \in closedBitmaps
         /\ hookCalls[i].previewUrl \in revokedUrls
  /\ imageState.bitmap # JsNull =>
       /\ imageState.bitmap.id \notin closedBitmaps
       /\ imageState.previewUrl \notin revokedUrls
       /\ imageState.width = imageState.bitmap.width
       /\ imageState.height = imageState.bitmap.height
  /\ (hookCalls # <<>> /\ hookCalls[Len(hookCalls)].op = "clearImage") =>
       imageState = NoImageState

\* an image was loaded, replaced by a second of another size, and the second
\* is held: the first is closed and its URL revoked
C30_Witness ==
  /\ Len(hookCalls) = 2
  /\ LoadCalls = { 1, 2 }
  /\ hookCalls[1].bitmap.width # hookCalls[2].bitmap.width
  /\ imageState.bitmap = hookCalls[2].bitmap
  /\ closedBitmaps = { 1 }
  /\ revokedUrls = { ObjectUrl(1) }

-----------------------------------------------------------------------------
(* The colour mode from the panel to the frame.                             *)

\* the colour mode of the validated config a request of the App was built from
ColorModeOf(req) == req.config.colorsEnabled

\* C29: for a request the App built from a validated config, the ASCII worker
\* produces a colors grid only when the config's colorMode is "color": with
\* "grayscale" it allocates none while it computes the frame, and the frame it
\* returns carries none.
C29_ColorsOnlyInColorMode ==
  /\ (pc = "loop" /\ ColorModeOf(cur.data) # JsString("color")) => frameColors = <<>>
  /\ \A id \in RequestIds :
       HasFrame(id) =>
         (("colors" \in DOMAIN FrameOf(id))
            <=> (ColorModeOf(requests[id]) = JsString("color")))

====
